---- MODULE Spec2Model ----
(***************************************************************************)
(* Model of the benchmark harness: the parallel TaskRunner                 *)
(* (parallel_runner.py), the SerialTaskRunner (serial_runner.py), the task *)
(* loop of run.py and the two interaction executors                        *)
(* (parallel_runner.execute_interaction and utils.execute_interaction).    *)
(*                                                                         *)
(* Spec      the runners; Init picks the mode and the task list.           *)
(* SpecTimed the runners with the passing of time observed.                *)
(* SpecExec  the interaction executors as pure functions of their inputs.  *)
(* SpecEval  evaluate_task of both evaluation modules and the merge.       *)
(* SpecPool  the RequestPool of the Claude adapter under several threads.  *)
(* SpecRetry BaseModel.run_task and its error recovery.                    *)
(* SpecLive  the parallel runner under fair scheduling.                    *)
(* SpecBatch the batch loops of the runner and of the parallel evaluation. *)
(* SpecTrunc the request fuzzy_match_html sends to the structural judge.   *)
(***************************************************************************)
EXTENDS Integers, Sequences, FiniteSets, TLC

VARIABLES
    mode,       \* "parallel" (TaskRunner), "serial" (SerialTaskRunner), "main" (run.py)
    ntasks,     \* len(tasks); task k of the list has id k
    run,        \* position of run_tasks
    idx,        \* parallel: loop variable i of run_tasks; serial: tasks done
    pc,         \* pc[t]: position of execute_task(t)
    result,     \* result[t]: the result dict execute_task(t) is filling
    driver,     \* driver[t]: local variable driver of execute_task(t), 0 = unset
    sess,       \* sess[s]: browser instance s created by webdriver.Chrome()
    results,    \* the list run_tasks returns
    runDriver,  \* serial: self.driver; main: driver; 0 = None
    runError,   \* exception run_tasks ended with, Null when none
    started,    \* history: how many times execute_task(t) was entered
    phases,     \* history: browser phases execute_task(t) performed, in order
    fault,      \* history: what went wrong in execute_task(t), "none" if nothing
    overdue,    \* history: a blocking call of t outlasted the task time budget
    xin,        \* SpecExec: the input of execute_interaction
    xout,       \* SpecExec: what execute_interaction returned
    ein,        \* SpecEval: the task result and judge answers of one evaluation
    eout,       \* SpecEval: the Evaluation Record evaluate_task returned
    mres,       \* SpecEval: the result records evaluate.py loaded
    mevals,     \* SpecEval: eval_results['evaluations'] handed to the merge
    mout,       \* SpecEval: the result records after the merge
    clock,      \* SpecPool: time.time(), in seconds
    requests,   \* SpecPool: RequestPool.requests
    tpc,        \* SpecPool: tpc[w]: position of worker thread w in parse_task
    sent,       \* SpecPool: sent[w]: requests thread w has sent
    admits,     \* SpecPool, history: the time of every add_request
    rtask,      \* SpecRetry: the task BaseModel.run_task was called with
    depth,      \* SpecRetry: run_task frames on the stack, one per attempt
    rpc,        \* SpecRetry: position of the innermost run_task
    rerr,       \* SpecRetry: str(e) of the exception the attempt caught
    rret,       \* SpecRetry: how the outermost run_task ended
    rlog,       \* SpecRetry, history: the step that failed in each attempt
    rinter,     \* SpecRetry: the local interaction of the innermost run_task
    rtry,       \* SpecRetry: try_again, what handle_error last returned
    rran,       \* SpecRetry, history: the interaction each attempt executed
    answer,     \* history: what execute_interaction returned to execute_task(t)
    jnext,      \* SpecEval: what each judge would answer to a second call
    eagain,     \* SpecEval: the record of a second evaluate_task on the same result
    bimpl,      \* SpecBatch: "runner" (run_tasks) or "eval" (run_parallel_evaluation)
    bworkers,   \* SpecBatch: the configured max_workers
    bn,         \* SpecBatch: the number of items to process
    bi,         \* SpecBatch: loop variable i
    brun,       \* SpecBatch: position of the batch loop
    bpc,        \* SpecBatch: bpc[k]: position of the pool's call on item k
    bslept,     \* SpecBatch: calls of time.sleep made by the batch loop
    bsizes,     \* SpecBatch, history: len(batch) of every batch submitted
    bout,       \* SpecBatch: the items in the order their results were collected
    blate,      \* SpecBatch, history: the items whose call ran for more than 60 s
    bres,       \* SpecBatch: bres[k]: how the call on item k ended
    fin,        \* SpecTrunc: the lengths of the arguments of fuzzy_match_html
    fout,       \* SpecTrunc: the lengths in the request sent, and the verdict
    aimpl,      \* SpecApi: the adapter, "gpt4" (GPT4Model) or "gemini" (GeminiModel)
    acount,     \* SpecApi: retry_count of the innermost _call_api
    apc,        \* SpecApi: position of parse_task
    aret,       \* SpecApi: what the outermost _call_api returned
    alog,       \* SpecApi, history: how each attempt of _call_api ended
    aslept,     \* SpecApi: seconds spent in time.sleep between attempts
    aparsed,    \* SpecApi: what parse_task returned
    qimpl,      \* SpecPair: "parallel_eval" or "auto_eval"
    qn,         \* SpecPair: len(tasks), the tasks of the corpus having ids 1 .. qn
    qres,       \* SpecPair: the task_id of each record of the results file
    qi,         \* SpecPair: the tasks the pairing loop has gone through
    qpairs,     \* SpecPair: task_pairs, by task id
    qevals,     \* SpecPair: evaluations
    qout        \* SpecPair: the evaluation output written

runnerVars == <<mode, ntasks, run, idx, pc, result, driver, sess, results,
                runDriver, runError, started, phases, fault, overdue>>
execVars == <<xin, xout>>
\* The state of the evaluation and of the request pool.
evalVars == <<ein, eout, mres, mevals, mout, jnext, eagain>>
poolVars == <<clock, requests, tpc, sent, admits>>
\* The state of BaseModel.run_task.
retryVars == <<rtask, depth, rpc, rerr, rret, rlog, rinter, rtry, rran>>
\* The state of a batch loop, and of one call of fuzzy_match_html.
batchVars == <<bimpl, bworkers, bn, bi, brun, bpc, bslept, bsizes, bout,
               blate, bres>>
truncVars == <<fin, fout>>
\* The state of one parse_task call of a model adapter.
apiVars == <<aimpl, acount, apc, aret, alog, aslept, aparsed>>
\* The state of one evaluation run over a corpus and a results file.
pairVars == <<qimpl, qn, qres, qi, qpairs, qevals, qout>>
lateVars == <<apiVars, pairVars>>
moreVars == <<retryVars, batchVars, truncVars, answer, lateVars>>
extVars == <<ein, eout, mres, mevals, mout, jnext, eagain, clock, requests, tpc, sent,
             admits, moreVars>>
\* extVars without the history of the executor's answers.
extState == <<evalVars, poolVars, retryVars, batchVars, truncVars, lateVars>>
vars == <<mode, ntasks, run, idx, pc, result, driver, sess, results,
          runDriver, runError, started, phases, fault, overdue, xin, xout,
          ein, eout, mres, mevals, mout, clock, requests, tpc, sent, admits,
          moreVars>>

\* Bounds of the model.
NumTasks == 3
MaxWorkers == 2

\* Python's None.
Null == "null"

(***************************************************************************)
(* The interaction executors.                                              *)
(***************************************************************************)

\* What the executor is asked to do and how the browser answers each call.
\*   action   interaction_type / interaction["action"]
\*   stype    target_element["type"]
\*   present  the presence wait finds the element (else TimeoutException)
\*   ready    the interactability wait: "ok", "timeout" (TimeoutException) or
\*            "error" (any other exception raised while waiting)
\*   act      the native action (click, clear/send_keys, move_to_element)
\*   js       the script click used as fallback
Actions == {"click", "type", "type_submit", "hover", "bogus"}
SelectorTypes == {"id", "class", "text", "css", "xpath", "name", "tag", "bogus"}
WaitOutcomes == {"ok", "timeout", "error"}
ActOutcomes == {"ok", "intercepted", "not_interactable", "stale", "error"}
JsOutcomes == {"ok", "intercepted", "stale", "error"}

ExecInputs ==
    [action : Actions, stype : SelectorTypes, present : BOOLEAN,
     ready : WaitOutcomes, act : ActOutcomes, js : JsOutcomes]

\* element.get_attribute('outerHTML')
OuterHTML == "<element>"

\* The except clauses of parallel_runner.execute_interaction: the error string
\* recorded for each exception class.
ErrorOf(exc) ==
    CASE exc = "timeout" -> "Element not found"
      [] exc = "not_interactable" -> "Element not interactable"
      [] exc = "stale" -> "Element became stale"
      [] exc = "intercepted" -> "Click blocked"
      [] OTHER -> "webdriver error"

\* selector_map of parallel_runner.execute_interaction.
SelectorMapP == {"id", "class", "text", "css", "xpath"}

\* parallel_runner.execute_interaction. calls lists the browser calls made.
ExecuteInteractionP(x) ==
    LET Out(ok, html, err, calls) ==
            [success |-> ok, html_element |-> html, error |-> err, calls |-> calls]
        typing == x.action \in {"type", "type_submit"}
        found == <<"wait_presence", "get_outerHTML">>
        waited == found \o <<"wait_interactable">>
        ready == IF typing THEN waited ELSE waited \o <<"scrollIntoView">>
    IN  IF x.stype \notin SelectorMapP
            THEN Out(FALSE, Null, "Invalid selector type", <<>>)
        ELSE IF ~x.present
            THEN Out(FALSE, Null, ErrorOf("timeout"), <<"wait_presence">>)
        ELSE IF x.ready # "ok"
            THEN Out(FALSE, OuterHTML, ErrorOf(x.ready), waited)
        ELSE IF x.action = "click"
            THEN IF x.act = "ok"
                    THEN Out(TRUE, OuterHTML, Null, ready \o <<"click">>)
                 ELSE IF x.act = "intercepted"
                    THEN IF x.js = "ok"
                            THEN Out(TRUE, OuterHTML, Null,
                                     ready \o <<"click", "script_click">>)
                            ELSE Out(FALSE, OuterHTML, ErrorOf(x.js),
                                     ready \o <<"click", "script_click">>)
                 ELSE Out(FALSE, OuterHTML, ErrorOf(x.act), ready \o <<"click">>)
        ELSE IF typing
            THEN IF x.act = "ok"
                    THEN Out(TRUE, OuterHTML, Null, ready \o <<"send_keys">>)
                    ELSE Out(FALSE, OuterHTML, ErrorOf(x.act), ready \o <<"send_keys">>)
        ELSE Out(FALSE, OuterHTML, "Invalid interaction type", ready)

\* selector_map of utils.execute_interaction.
SelectorMapU == {"id", "class", "css", "xpath", "name", "tag"}

\* utils.execute_interaction returns the pair (success, element_html): there is
\* no error in what it returns, every failure is only logged.
ExecuteInteractionU(x) ==
    LET Out(ok, html, calls) ==
            [success |-> ok, html_element |-> html, error |-> Null, calls |-> calls]
        waited == <<"wait_presence", "wait_interactable">>
        ready == waited \o <<"get_outerHTML">>
    IN  IF x.stype \notin SelectorMapU
            THEN Out(FALSE, Null, <<>>)
        ELSE IF ~x.present
            THEN Out(FALSE, Null, <<"wait_presence">>)
        ELSE IF x.ready # "ok"
            THEN Out(FALSE, Null, waited)
        ELSE IF x.action = "click"
            THEN IF x.act = "ok"
                    THEN Out(TRUE, OuterHTML, ready \o <<"click">>)
                    ELSE Out(FALSE, Null, ready \o <<"click">>)
        ELSE IF x.action = "type"
            THEN IF x.act = "ok"
                    THEN Out(TRUE, OuterHTML, ready \o <<"send_keys">>)
                    ELSE Out(FALSE, Null, ready \o <<"send_keys">>)
        ELSE IF x.action = "hover"
            THEN IF x.act = "ok"
                    THEN Out(TRUE, OuterHTML, ready \o <<"move_to_element">>)
                    ELSE Out(FALSE, Null, ready \o <<"move_to_element">>)
        ELSE Out(FALSE, OuterHTML, ready)

\* xout before execute_interaction has been called.
NotCalled ==
    [impl |-> "none",
     ret |-> [success |-> FALSE, html_element |-> Null, error |-> Null, calls |-> <<>>]]

\* The fields of the executor's answer that the runners read.
Answer(r) == [success |-> r.success, html_element |-> r.html_element, error |-> r.error]

\* The requests and browser reactions the runners are exercised with: a
\* supported and two unsupported selector types, an element that is present
\* or not, a native action that works or finds the element not interactable.
RunnerInputs ==
    {x \in ExecInputs :
        /\ x.action \in {"click", "hover"}
        /\ x.stype \in {"id", "name", "bogus"}
        /\ x.ready = "ok"
        /\ x.act \in {"ok", "not_interactable"}
        /\ x.js = "ok"}

\* answer[t] once the executor has returned r.
Returned(r) ==
    [called |-> TRUE, success |-> r.success, html_element |-> r.html_element,
     error |-> r.error]

\* Every answer the executors give the runners over these.
AnswersP == {Answer(ExecuteInteractionP(x)) : x \in RunnerInputs}
AnswersU == {Answer(ExecuteInteractionU(x)) : x \in RunnerInputs}

(***************************************************************************)
(* State shared by the two runners.                                        *)
(***************************************************************************)

Tasks == 1 .. NumTasks
MaxSessions == NumTasks + 1
Sessions == 1 .. MaxSessions

\* Messages of the exceptions the collaborators raise (str(e)).
SessionError == "session not created"
NoUrlError == "No URL provided in task"
PageLoadError == "page load failed"
ScreenshotError == "screenshot failed"
\* The model adapter is external: its exceptions may carry an empty message.
AdapterMsgs == {"", "adapter error"}

\* The result dict execute_task starts from. A key the code has not set reads
\* as None (r.get(key)).
NewResult(t) ==
    [task_id |-> t, success |-> FALSE, error |-> Null, before_screenshot |-> Null,
     html_element |-> Null, after_screenshot |-> Null]

\* batch_size = self.max_workers
BatchSize == MaxWorkers

\* The slice taken one task too long.
BatchOverlapping(i) == {t \in Tasks : i < t /\ t <= i + BatchSize + 1 /\ t <= ntasks}

\* batch = tasks[i:i + batch_size]
Batch(i) == {t \in Tasks : i < t /\ t <= i + BatchSize /\ t <= ntasks}

\* One browser instance kept and handed to every caller.
SharedSession(t) == 1

\* webdriver.Chrome(service=service, options=chrome_options) creates a new
\* browser instance on every call. Instances are numbered by the call that
\* creates them: execute_task(t) creates instance t, run_tasks of the serial
\* runner creates instance RunSession.
NewSession(t) == t
RunSession == MaxSessions

\* The quit forgotten.
QuitForgotten(s) == sess

\* driver.quit() on session s. An exception it raises is caught and logged
\* by execute_task and changes nothing.
Quit(s) == [sess EXCEPT ![s] = [state |-> "quit", quits |-> @.quits + 1]]

\* eout before evaluate_task has been called, mout before the merge.
NotEvaluated == [path |-> "none"]
NotMerged == [state |-> "none", records |-> <<>>]

\* The worker threads that share the model adapter and its RequestPool.
Threads == 1 .. MaxWorkers

\* A RequestPool just constructed, no thread in parse_task.
PoolIdle ==
    /\ clock = 0 /\ requests = <<>> /\ admits = <<>>
    /\ tpc = [w \in Threads |-> "idle"]
    /\ sent = [w \in Threads |-> 0]

\* No WebInteraction: the local not yet bound, or the None handle_error returns.
NoInteraction == [by |-> "none", attempt |-> 0]

\* run_task before it has returned or raised.
NotReturned == [kind |-> "none", task_id |-> 0, success |-> FALSE, error |-> Null]

\* BaseModel.run_task has not been called.
RetryIdle ==
    /\ rtask = 0 /\ depth = 0 /\ rpc = "idle" /\ rerr = Null
    /\ rret = NotReturned /\ rlog = <<>>
    /\ rinter = NoInteraction /\ rtry = NoInteraction /\ rran = <<>>

\* The items a batch loop is given.
MaxItems == 5
Items == 1 .. MaxItems

\* No batch loop has been entered.
BatchIdle ==
    /\ bimpl = "none" /\ bworkers = 0 /\ bn = 0 /\ bi = 0 /\ brun = "idle"
    /\ bpc = [k \in Items |-> "pending"]
    /\ bslept = 0 /\ bsizes = <<>> /\ bout = <<>>
    /\ blate = {} /\ bres = [k \in Items |-> "none"]

\* fuzzy_match_html has not been called.
NoLengths == [task_description |-> 0, actual_html |-> 0, expected_html |-> 0]
NotSent == [sent |-> FALSE, request |-> NoLengths, locals |-> NoLengths]
TruncIdle == fin = Null /\ fout = NotSent

\* answer[t] before execute_task(t) has called the executor.
NoAnswer == [called |-> FALSE, success |-> FALSE, html_element |-> Null, error |-> Null]

\* _call_api before it has returned.
NoReturn == [returned |-> FALSE, response |-> Null, error |-> FALSE]

\* parse_task has not been called.
ApiIdle ==
    /\ aimpl = "none" /\ acount = 0 /\ apc = "idle" /\ aret = NoReturn
    /\ alog = <<>> /\ aslept = 0 /\ aparsed = "pending"

\* The evaluation output before it is written.
NotWritten == [written |-> FALSE, total_tasks |-> 0, successful_tasks |-> 0,
               evaluations |-> <<>>]

\* No evaluation run has been started.
PairIdle ==
    /\ qimpl = "none" /\ qn = 0 /\ qres = <<>> /\ qi = 0
    /\ qpairs = <<>> /\ qevals = <<>> /\ qout = NotWritten

LateIdle == ApiIdle /\ PairIdle

\* Nothing but the runners is under way.
MoreIdle ==
    /\ RetryIdle /\ BatchIdle /\ TruncIdle
    /\ answer = [t \in Tasks |-> NoAnswer]
    /\ LateIdle

\* No evaluation is under way.
ExtIdle ==
    /\ ein = Null /\ eout = NotEvaluated /\ eagain = NotEvaluated
    /\ mres = <<>> /\ mevals = <<>> /\ mout = NotMerged /\ jnext = Null
    /\ PoolIdle
    /\ MoreIdle

Init ==
    /\ mode \in {"parallel", "serial", "main"}
    /\ ntasks \in 0 .. NumTasks
    /\ run = IF mode = "parallel" THEN "loop" ELSE "start"
    /\ idx = 0
    /\ pc = [t \in Tasks |-> "pending"]
    /\ result = [t \in Tasks |-> NewResult(t)]
    /\ driver = [t \in Tasks |-> 0]
    /\ sess = [s \in Sessions |-> [state |-> "free", quits |-> 0]]
    /\ results = <<>>
    /\ runDriver = 0
    /\ runError = Null
    /\ started = [t \in Tasks |-> 0]
    /\ phases = [t \in Tasks |-> <<>>]
    /\ fault = [t \in Tasks |-> "none"]
    /\ overdue = [t \in Tasks |-> FALSE]
    /\ xin = Null
    /\ xout = NotCalled
    /\ ExtIdle

\* An exception with message msg reaches the except clause of execute_task
\* (parallel): result['error'] = str(e), then the finally block.
Raise(t, kind, msg) ==
    /\ result' = [result EXCEPT ![t].error = msg]
    /\ fault' = [fault EXCEPT ![t] = kind]
    /\ pc' = [pc EXCEPT ![t] = "finally"]

Log(t, phase) == phases' = [phases EXCEPT ![t] = Append(@, phase)]

(***************************************************************************)
(* TaskRunner (parallel_runner.py).                                        *)
(***************************************************************************)

\* run_tasks: one iteration of the batch loop submits the batch to a pool.
P_SubmitBatch ==
    /\ mode = "parallel" /\ run = "loop" /\ idx < ntasks
    /\ pc' = [t \in Tasks |-> IF t \in Batch(idx) THEN "queued" ELSE pc[t]]
    /\ run' = "collect"
    /\ UNCHANGED <<mode, ntasks, idx, result, driver, sess, results, runDriver,
                   runError, started, phases, fault, overdue, xin, xout, extVars>>

\* A pool thread enters execute_task(task).
P_Start(t) ==
    /\ mode = "parallel" /\ pc[t] = "queued"
    /\ pc' = [pc EXCEPT ![t] = "setup"]
    /\ result' = [result EXCEPT ![t] = NewResult(t)]
    /\ started' = [started EXCEPT ![t] = @ + 1]
    /\ UNCHANGED <<mode, ntasks, run, idx, driver, sess, results, runDriver,
                   runError, phases, fault, overdue, xin, xout, extVars>>

\* driver = self.setup_driver()
P_SetupDriver(t) ==
    /\ mode = "parallel" /\ pc[t] = "setup"
    /\ \/ /\ sess' = [sess EXCEPT ![NewSession(t)].state = "live"]
          /\ driver' = [driver EXCEPT ![t] = NewSession(t)]
          /\ pc' = [pc EXCEPT ![t] = "nav"]
          /\ UNCHANGED <<result, fault>>
       \/ \* webdriver.Chrome() raises: no browser was started
          /\ Raise(t, "setup", SessionError)
          /\ UNCHANGED <<sess, driver>>
       \/ \* the browser started, configuring it or loading about:blank raises:
          \* setup_driver raises and the instance is not returned to anyone
          /\ Raise(t, "setup", SessionError)
          /\ sess' = [sess EXCEPT ![NewSession(t)].state = "orphan"]
          /\ UNCHANGED driver
    /\ UNCHANGED <<mode, ntasks, run, idx, results, runDriver, runError,
                   started, phases, overdue, xin, xout, extVars>>

\* url = task.get('web'); driver.get(url); time.sleep(self.wait_time)
P_Navigate(t) ==
    /\ mode = "parallel" /\ pc[t] = "nav"
    /\ \/ /\ Raise(t, "nourl", NoUrlError)
          /\ UNCHANGED <<phases, overdue>>
       \/ /\ Raise(t, "navigate", PageLoadError)
          /\ Log(t, "navigate")
          /\ UNCHANGED overdue
       \/ /\ pc' = [pc EXCEPT ![t] = "before"]
          /\ Log(t, "navigate")
          /\ UNCHANGED <<result, fault, overdue>>
    /\ UNCHANGED <<mode, ntasks, run, idx, driver, sess, results, runDriver,
                   runError, started, xin, xout, extVars>>

\* driver.save_screenshot(before); result['before_screenshot']; page_source
P_CaptureBefore(t) ==
    /\ mode = "parallel" /\ pc[t] = "before"
    /\ Log(t, "capture_before")
    /\ \/ /\ result' = [result EXCEPT ![t].before_screenshot = "before.png"]
          /\ pc' = [pc EXCEPT ![t] = "parse"]
          /\ UNCHANGED fault
       \/ Raise(t, "capture_before", ScreenshotError)
    /\ UNCHANGED <<mode, ntasks, run, idx, driver, sess, results, runDriver,
                   runError, started, overdue, xin, xout, extVars>>

\* A parse step that goes on to the interaction when parse_task returned None,
\* as if an interaction were built from the task's target element.
P_ParseTaskFabricates(t) ==
    /\ mode = "parallel" /\ pc[t] = "parse"
    /\ \/ /\ pc' = [pc EXCEPT ![t] = "interact"]
          /\ UNCHANGED <<result, fault>>
       \/ /\ pc' = [pc EXCEPT ![t] = "interact"]
          /\ fault' = [fault EXCEPT ![t] = "no_interaction"]
          /\ UNCHANGED result
       \/ \E msg \in AdapterMsgs : Raise(t, "adapter", msg)
    /\ UNCHANGED <<mode, ntasks, run, idx, driver, sess, results, runDriver,
                   runError, started, phases, overdue, xin, xout, extVars>>

\* interaction = self.model.parse_task(task, page_html)
P_ParseTask(t) ==
    /\ mode = "parallel" /\ pc[t] = "parse"
    /\ \/ /\ pc' = [pc EXCEPT ![t] = "interact"]
          /\ UNCHANGED <<result, fault>>
       \/ \* if not interaction: return result
          /\ pc' = [pc EXCEPT ![t] = "finally"]
          /\ fault' = [fault EXCEPT ![t] = "no_interaction"]
          /\ UNCHANGED result
       \/ \E msg \in AdapterMsgs : Raise(t, "adapter", msg)
    /\ UNCHANGED <<mode, ntasks, run, idx, driver, sess, results, runDriver,
                   runError, started, phases, overdue, xin, xout, extVars>>

\* interaction_result = execute_interaction(driver, ...) and the branch on it
P_Interact(t) ==
    /\ mode = "parallel" /\ pc[t] = "interact"
    /\ Log(t, "interact")
    /\ \E r \in AnswersP :
        /\ answer' = [answer EXCEPT ![t] = Returned(r)]
        /\ IF r.success
          THEN /\ result' = [result EXCEPT ![t].success = TRUE,
                                           ![t].html_element = r.html_element]
               /\ pc' = [pc EXCEPT ![t] = "after"]
               /\ UNCHANGED fault
          ELSE /\ result' = [result EXCEPT ![t].error = r.error]
               /\ pc' = [pc EXCEPT ![t] = "finally"]
               /\ fault' = [fault EXCEPT ![t] = "interaction"]
    /\ UNCHANGED <<mode, ntasks, run, idx, driver, sess, results, runDriver,
                   runError, started, overdue, xin, xout, extState>>

\* time.sleep; driver.save_screenshot(after); result['after_screenshot']
P_CaptureAfter(t) ==
    /\ mode = "parallel" /\ pc[t] = "after"
    /\ Log(t, "capture_after")
    /\ \/ /\ result' = [result EXCEPT ![t].after_screenshot = "after.png"]
          /\ pc' = [pc EXCEPT ![t] = "finally"]
          /\ UNCHANGED fault
       \/ Raise(t, "capture_after", ScreenshotError)
    /\ UNCHANGED <<mode, ntasks, run, idx, driver, sess, results, runDriver,
                   runError, started, overdue, xin, xout, extVars>>

\* The browser closed right after the interaction, before the after-state
\* capture.
P_FinallyEarly(t) ==
    /\ mode = "parallel" /\ pc[t] \in {"after", "finally"}
    /\ IF driver[t] # 0 /\ sess[driver[t]].state = "live"
         THEN /\ sess' = Quit(driver[t])
              /\ Log(t, "release")
              /\ UNCHANGED pc
         ELSE /\ pc[t] = "finally"
              /\ pc' = [pc EXCEPT ![t] = "done"]
              /\ UNCHANGED <<sess, phases>>
    /\ UNCHANGED <<mode, ntasks, run, idx, result, driver, results, runDriver,
                   runError, started, fault, overdue, xin, xout, extVars>>

\* finally: if driver: driver.quit(); then return result
P_Finally(t) ==
    /\ mode = "parallel" /\ pc[t] = "finally"
    /\ IF driver[t] # 0
         THEN /\ sess' = Quit(driver[t])
              /\ Log(t, "release")
         ELSE UNCHANGED <<sess, phases>>
    /\ pc' = [pc EXCEPT ![t] = "done"]
    /\ UNCHANGED <<mode, ntasks, run, idx, result, driver, results, runDriver,
                   runError, started, fault, overdue, xin, xout, extVars>>

\* for future in as_completed(...): result = future.result();
\* results.append(result), or the record built when future.result() raises
P_Collect(t) ==
    /\ mode = "parallel" /\ run = "collect"
    /\ t \in Batch(idx)
    /\ pc[t] \in {"done", "raised"}
    /\ results' = Append(results,
                    IF pc[t] = "done"
                      THEN result[t]
                      ELSE [NewResult(t) EXCEPT !.error = result[t].error])
    /\ pc' = [pc EXCEPT ![t] = "collected"]
    /\ UNCHANGED <<mode, ntasks, run, idx, result, driver, sess, runDriver,
                   runError, started, phases, fault, overdue, xin, xout, extVars>>

\* as_completed is exhausted, the pool shuts down, the loop goes on
P_BatchDone ==
    /\ mode = "parallel" /\ run = "collect"
    /\ \A t \in Batch(idx) : pc[t] = "collected"
    /\ idx' = idx + BatchSize
    /\ run' = "loop"
    /\ UNCHANGED <<mode, ntasks, pc, result, driver, sess, results, runDriver,
                   runError, started, phases, fault, overdue, xin, xout, extVars>>

\* return results
P_Return ==
    /\ mode = "parallel" /\ run = "loop" /\ idx >= ntasks
    /\ run' = "returned"
    /\ UNCHANGED <<mode, ntasks, idx, pc, result, driver, sess, results,
                   runDriver, runError, started, phases, fault, overdue, xin, xout, extVars>>

(***************************************************************************)
(* SerialTaskRunner (serial_runner.py).                                    *)
(***************************************************************************)

\* error_msg = f"Error in task {task_id}: {str(e)}"
SerialError(msg) == "Error in task: " \o msg

\* The except clause of execute_task (serial): result['error'] = error_msg,
\* result['success'] = False, then the finally block.
S_Raise(t, kind, msg) ==
    /\ result' = [result EXCEPT ![t].error = SerialError(msg), ![t].success = FALSE]
    /\ fault' = [fault EXCEPT ![t] = kind]
    /\ pc' = [pc EXCEPT ![t] = "finally"]

\* The failure of the run-level setup_driver caught and the loop entered.
S_RunSetupSwallowed ==
    /\ mode = "serial" /\ run = "start"
    /\ \/ /\ sess' = [sess EXCEPT ![RunSession].state = "live"]
          /\ runDriver' = RunSession
          /\ UNCHANGED runError
       \/ /\ runError' = SessionError
          /\ UNCHANGED <<sess, runDriver>>
    /\ run' = "loop"
    /\ UNCHANGED <<mode, ntasks, idx, pc, result, driver, results, started,
                   phases, fault, overdue, xin, xout, extVars>>

\* run_tasks: self.driver = self.setup_driver()
S_RunSetup ==
    /\ mode = "serial" /\ run = "start"
    /\ \/ /\ sess' = [sess EXCEPT ![RunSession].state = "live"]
          /\ runDriver' = RunSession
          /\ run' = "loop"
          /\ UNCHANGED runError
       \/ \* webdriver.Chrome() raises; finally: self.driver is None
          /\ run' = "raised"
          /\ runError' = SessionError
          /\ UNCHANGED <<sess, runDriver>>
       \/ \* the browser started, loading about:blank raises
          /\ run' = "raised"
          /\ runError' = SessionError
          /\ sess' = [sess EXCEPT ![RunSession].state = "orphan"]
          /\ UNCHANGED runDriver
    /\ UNCHANGED <<mode, ntasks, idx, pc, result, driver, results, started,
                   phases, fault, overdue, xin, xout, extVars>>

\* for i, task in enumerate(tasks, 1): self.execute_task(task, i, len(tasks))
S_Start(t) ==
    /\ mode = "serial" /\ run = "loop"
    /\ t = idx + 1 /\ t <= ntasks /\ pc[t] = "pending"
    /\ pc' = [pc EXCEPT ![t] = "setup"]
    /\ result' = [result EXCEPT ![t] = NewResult(t)]
    /\ started' = [started EXCEPT ![t] = @ + 1]
    /\ UNCHANGED <<mode, ntasks, run, idx, driver, sess, results, runDriver,
                   runError, phases, fault, overdue, xin, xout, extVars>>

\* driver = self.setup_driver()
S_SetupDriver(t) ==
    /\ mode = "serial" /\ pc[t] = "setup"
    /\ \/ /\ sess' = [sess EXCEPT ![NewSession(t)].state = "live"]
          /\ driver' = [driver EXCEPT ![t] = NewSession(t)]
          /\ pc' = [pc EXCEPT ![t] = "nav"]
          /\ UNCHANGED <<result, fault>>
       \/ /\ S_Raise(t, "setup", SessionError)
          /\ UNCHANGED <<sess, driver>>
       \/ /\ S_Raise(t, "setup", SessionError)
          /\ sess' = [sess EXCEPT ![NewSession(t)].state = "orphan"]
          /\ UNCHANGED driver
    /\ UNCHANGED <<mode, ntasks, run, idx, results, runDriver, runError,
                   started, phases, overdue, xin, xout, extVars>>

\* url = task.get('web'); driver.get(url); time.sleep(self.wait_time)
S_Navigate(t) ==
    /\ mode = "serial" /\ pc[t] = "nav"
    /\ \/ /\ S_Raise(t, "nourl", NoUrlError)
          /\ UNCHANGED phases
       \/ /\ S_Raise(t, "navigate", PageLoadError)
          /\ Log(t, "navigate")
       \/ /\ pc' = [pc EXCEPT ![t] = "parse"]
          /\ Log(t, "navigate")
          /\ UNCHANGED <<result, fault>>
    /\ UNCHANGED <<mode, ntasks, run, idx, driver, sess, results, runDriver,
                   runError, started, overdue, xin, xout, extVars>>

\* web_interaction = self.model.parse_task(task); interaction = {...}
S_ParseTask(t) ==
    /\ mode = "serial" /\ pc[t] = "parse"
    /\ \/ /\ pc' = [pc EXCEPT ![t] = "interact"]
          /\ UNCHANGED <<result, fault>>
       \/ \* parse_task returned None: web_interaction.action raises
          S_Raise(t, "no_interaction", "'NoneType' object has no attribute 'action'")
       \/ \E msg \in AdapterMsgs : S_Raise(t, "adapter", msg)
    /\ UNCHANGED <<mode, ntasks, run, idx, driver, sess, results, runDriver,
                   runError, started, phases, overdue, xin, xout, extVars>>

\* success, element_html = execute_interaction(driver, interaction)
\* if not success: raise ValueError("Interaction failed")
S_Interact(t) ==
    /\ mode = "serial" /\ pc[t] = "interact"
    /\ Log(t, "interact")
    /\ \E r \in AnswersU :
        /\ answer' = [answer EXCEPT ![t] = Returned(r)]
        /\ IF r.success
          THEN /\ result' = [result EXCEPT ![t].html_element = r.html_element]
               /\ pc' = [pc EXCEPT ![t] = "after"]
               /\ UNCHANGED fault
          ELSE S_Raise(t, "interaction", "Interaction failed")
    /\ UNCHANGED <<mode, ntasks, run, idx, driver, sess, results, runDriver,
                   runError, started, overdue, xin, xout, extState>>

\* after_screenshot = save_screenshot(...), which returns None when the
\* capture fails; the accessibility tree; then the branch that sets success
S_CaptureAfter(t) ==
    /\ mode = "serial" /\ pc[t] = "after"
    /\ Log(t, "capture_after")
    /\ \E shot \in {"after.png", Null} :
        IF shot # Null /\ result[t].html_element # Null
          THEN /\ result' = [result EXCEPT ![t].after_screenshot = shot,
                                           ![t].success = FALSE]
               /\ UNCHANGED fault
          ELSE /\ result' = [result EXCEPT ![t].after_screenshot = shot,
                                           ![t].success = FALSE,
                                           ![t].error = "Missing required data"]
               /\ fault' = [fault EXCEPT ![t] = "capture_after"]
    /\ pc' = [pc EXCEPT ![t] = "finally"]
    /\ UNCHANGED <<mode, ntasks, run, idx, driver, sess, results, runDriver,
                   runError, started, overdue, xin, xout, extVars>>

\* finally: if 'driver' in locals(): driver.quit(); then return result
S_Finally(t) ==
    /\ mode = "serial" /\ pc[t] = "finally"
    /\ IF driver[t] # 0
         THEN /\ sess' = Quit(driver[t])
              /\ Log(t, "release")
         ELSE UNCHANGED <<sess, phases>>
    /\ pc' = [pc EXCEPT ![t] = "done"]
    /\ UNCHANGED <<mode, ntasks, run, idx, result, driver, results, runDriver,
                   runError, started, fault, overdue, xin, xout, extVars>>

\* results.append(result)
S_Append(t) ==
    /\ mode = "serial" /\ run = "loop" /\ pc[t] = "done"
    /\ results' = Append(results, result[t])
    /\ pc' = [pc EXCEPT ![t] = "collected"]
    /\ idx' = idx + 1
    /\ UNCHANGED <<mode, ntasks, run, result, driver, sess, runDriver,
                   runError, started, phases, fault, overdue, xin, xout, extVars>>

\* finally: if self.driver: self.driver.quit(); then the summary, which
\* divides by len(tasks); return results
S_RunFinally ==
    /\ mode = "serial" /\ run = "loop" /\ idx = ntasks
    /\ sess' = Quit(runDriver)
    /\ \/ /\ ntasks > 0
          /\ run' = "returned"
          /\ UNCHANGED runError
       \/ /\ ntasks = 0
          /\ run' = "raised"
          /\ runError' = "division by zero"
       \/ \* self.driver.quit() raises: nothing catches it in run_tasks
          /\ run' = "raised"
          /\ runError' = "quit failed"
    /\ UNCHANGED <<mode, ntasks, idx, pc, result, driver, results, runDriver,
                   started, phases, fault, overdue, xin, xout, extVars>>

S_Task(t) ==
    \/ S_Start(t) \/ S_SetupDriver(t) \/ S_Navigate(t) \/ S_ParseTask(t)
    \/ S_Interact(t) \/ S_CaptureAfter(t) \/ S_Finally(t) \/ S_Append(t)

(***************************************************************************)
(* main of run.py: one browser for the whole run, the interaction built    *)
(* from the task itself.                                                   *)
(***************************************************************************)

\* The except clause of the task loop: result['error'] = str(e); then
\* results.append(result).
M_Raise(t, kind, msg) ==
    /\ result' = [result EXCEPT ![t].error = msg]
    /\ fault' = [fault EXCEPT ![t] = kind]
    /\ pc' = [pc EXCEPT ![t] = "done"]

\* driver = webdriver.Chrome(service=service, options=chrome_options),
\* outside every try block
M_Chrome ==
    /\ mode = "main" /\ run = "start"
    /\ \/ /\ sess' = [sess EXCEPT ![RunSession].state = "live"]
          /\ runDriver' = RunSession
          /\ run' = "loop"
          /\ UNCHANGED runError
       \/ /\ run' = "raised"
          /\ runError' = SessionError
          /\ UNCHANGED <<sess, runDriver>>
    /\ UNCHANGED <<mode, ntasks, idx, pc, result, driver, results, started,
                   phases, fault, overdue, xin, xout, extVars>>

\* for i, task in enumerate(tasks, 1): result = {...}
M_Start(t) ==
    /\ mode = "main" /\ run = "loop"
    /\ t = idx + 1 /\ t <= ntasks /\ pc[t] = "pending"
    /\ pc' = [pc EXCEPT ![t] = "nav"]
    /\ result' = [result EXCEPT ![t] = NewResult(t)]
    /\ started' = [started EXCEPT ![t] = @ + 1]
    /\ UNCHANGED <<mode, ntasks, run, idx, driver, sess, results, runDriver,
                   runError, phases, fault, overdue, xin, xout, extVars>>

\* url = task.get('web'); driver.get(url); time.sleep(args.wait_time)
M_Navigate(t) ==
    /\ mode = "main" /\ pc[t] = "nav"
    /\ \/ /\ M_Raise(t, "nourl", NoUrlError)
          /\ UNCHANGED phases
       \/ /\ M_Raise(t, "navigate", PageLoadError)
          /\ Log(t, "navigate")
       \/ /\ pc' = [pc EXCEPT ![t] = "before"]
          /\ Log(t, "navigate")
          /\ UNCHANGED <<result, fault>>
    /\ UNCHANGED <<mode, ntasks, run, idx, driver, sess, results, runDriver,
                   runError, started, overdue, xin, xout, extVars>>

\* save_screenshot(driver, before_screenshot), which swallows its errors;
\* result['before_screenshot'] = before_screenshot; the accessibility tree
M_CaptureBefore(t) ==
    /\ mode = "main" /\ pc[t] = "before"
    /\ Log(t, "capture_before")
    /\ result' = [result EXCEPT ![t].before_screenshot = "before.png"]
    /\ pc' = [pc EXCEPT ![t] = "interact"]
    /\ UNCHANGED <<mode, ntasks, run, idx, driver, sess, results, runDriver,
                   runError, started, fault, overdue, xin, xout, extVars>>

\* success = execute_interaction(driver, interaction), the pair the executor
\* returns; save_screenshot(driver, after_screenshot);
\* result['after_screenshot'] = after_screenshot; result['success'] = success
M_InteractAndCapture(t) ==
    /\ mode = "main" /\ pc[t] = "interact"
    /\ phases' = [phases EXCEPT ![t] = @ \o <<"interact", "capture_after">>]
    /\ \E r \in AnswersU :
        /\ answer' = [answer EXCEPT ![t] = Returned(r)]
        /\ result' = [result EXCEPT ![t].after_screenshot = "after.png",
                                    ![t].success = <<r.success, r.html_element>>]
    /\ pc' = [pc EXCEPT ![t] = "done"]
    /\ UNCHANGED <<mode, ntasks, run, idx, driver, sess, results, runDriver,
                   runError, started, fault, overdue, xin, xout, extState>>

\* results.append(result)
M_Append(t) ==
    /\ mode = "main" /\ run = "loop" /\ pc[t] = "done"
    /\ results' = Append(results, result[t])
    /\ pc' = [pc EXCEPT ![t] = "collected"]
    /\ idx' = idx + 1
    /\ UNCHANGED <<mode, ntasks, run, result, driver, sess, runDriver,
                   runError, started, phases, fault, overdue, xin, xout, extVars>>

\* save_results; the summary, which divides by len(tasks);
\* finally: driver.quit()
M_Finish ==
    /\ mode = "main" /\ run = "loop" /\ idx = ntasks
    /\ sess' = Quit(runDriver)
    /\ \/ /\ ntasks > 0
          /\ run' = "returned"
          /\ UNCHANGED runError
       \/ /\ ntasks = 0
          /\ run' = "raised"
          /\ runError' = "division by zero"
       \/ \* driver.quit() raises
          /\ run' = "raised"
          /\ runError' = "quit failed"
    /\ UNCHANGED <<mode, ntasks, idx, pc, result, driver, results, runDriver,
                   started, phases, fault, overdue, xin, xout, extVars>>

M_Task(t) ==
    \/ M_Start(t) \/ M_Navigate(t) \/ M_CaptureBefore(t)
    \/ M_InteractAndCapture(t) \/ M_Append(t)

\* Time passes: task t, its session acquired, has been at work for longer
\* than the time budget of one task. No runner measures it.
Running == {"nav", "before", "parse", "interact", "after"}

Overrun(t) ==
    /\ pc[t] \in Running /\ ~overdue[t]
    /\ overdue' = [overdue EXCEPT ![t] = TRUE]
    /\ UNCHANGED <<mode, ntasks, run, idx, pc, result, driver, sess, results,
                   runDriver, runError, started, phases, fault, xin, xout, extVars>>

P_Task(t) ==
    \/ P_Start(t) \/ P_SetupDriver(t) \/ P_Navigate(t) \/ P_CaptureBefore(t)
    \/ P_ParseTask(t) \/ P_Interact(t) \/ P_CaptureAfter(t) \/ P_Finally(t)
    \/ P_Collect(t)

Next ==
    \/ P_SubmitBatch \/ P_BatchDone \/ P_Return
    \/ S_RunSetup \/ S_RunFinally
    \/ M_Chrome \/ M_Finish
    \/ \E t \in Tasks : P_Task(t) \/ S_Task(t) \/ M_Task(t)

Spec == Init /\ [][Next]_vars

\* The runners with the passing of time observed.
NextTimed == Next \/ \E t \in Tasks : Overrun(t)

SpecTimed == Init /\ [][NextTimed]_vars

(***************************************************************************)
(* The parallel runner under fair scheduling.  The thread pool runs every  *)
(* submitted task, and a call into the browser ends within the timeouts    *)
(* setup_driver configures (page load, script, implicit wait) or the       *)
(* WebDriverWait of execute_interaction.  self.model.parse_task is called  *)
(* with no timeout, and so is future.result(): nothing in the runner makes *)
(* a model-adapter call return.                                            *)
(***************************************************************************)

InitLive == Init /\ mode = "parallel"

\* The steps of execute_task(t) that end within a configured timeout.
Bounded(t) ==
    \/ P_Start(t) \/ P_SetupDriver(t) \/ P_Navigate(t) \/ P_CaptureBefore(t)
    \/ P_Interact(t) \/ P_CaptureAfter(t) \/ P_Finally(t) \/ P_Collect(t)

NextLive ==
    \/ P_SubmitBatch \/ P_BatchDone \/ P_Return
    \/ \E t \in Tasks : P_Task(t)

SpecLive ==
    /\ InitLive /\ [][NextLive]_vars
    /\ WF_vars(P_SubmitBatch \/ P_BatchDone \/ P_Return)
    /\ \A t \in Tasks : WF_vars(Bounded(t))

\* The same with a model adapter that answers every call.
SpecLiveAnswered == SpecLive /\ \A t \in Tasks : WF_vars(P_ParseTask(t))

(***************************************************************************)
(* The interaction executors on their own: one call on one input.          *)
(***************************************************************************)

InitExec ==
    /\ mode = "exec"
    /\ ntasks = 0
    /\ run = "idle"
    /\ idx = 0
    /\ pc = [t \in Tasks |-> "pending"]
    /\ result = [t \in Tasks |-> NewResult(t)]
    /\ driver = [t \in Tasks |-> 0]
    /\ sess = [s \in Sessions |-> [state |-> "free", quits |-> 0]]
    /\ results = <<>>
    /\ runDriver = 0
    /\ runError = Null
    /\ started = [t \in Tasks |-> 0]
    /\ phases = [t \in Tasks |-> <<>>]
    /\ fault = [t \in Tasks |-> "none"]
    /\ overdue = [t \in Tasks |-> FALSE]
    /\ xin \in ExecInputs
    /\ xout = NotCalled
    /\ ExtIdle

\* execute_interaction(driver, action, target_element, input_text, timeout)
\* of parallel_runner.py is called on xin.
X_Parallel ==
    /\ mode = "exec" /\ xout = NotCalled
    /\ xout' = [impl |-> "parallel", ret |-> ExecuteInteractionP(xin)]
    /\ UNCHANGED <<runnerVars, xin, extVars>>

\* execute_interaction(driver, interaction) of utils.py is called on xin.
X_Utils ==
    /\ mode = "exec" /\ xout = NotCalled
    /\ xout' = [impl |-> "utils", ret |-> ExecuteInteractionU(xin)]
    /\ UNCHANGED <<runnerVars, xin, extVars>>

NextExec == X_Parallel \/ X_Utils

SpecExec == InitExec /\ [][NextExec]_vars

(***************************************************************************)
(* The evaluation: evaluate_task of evaluation/parallel_eval.py and of     *)
(* evaluation/auto_eval.py with the two judges they call, and the merge of *)
(* evaluate.py.                                                            *)
(***************************************************************************)

\* Scores are kept in hundredths: One stands for 1.0.
One == 100
\* A key the record does not have.
NoScore == -1

\* What one evaluation is given.
\*   shot    result['after_screenshot']: key absent, None, a path with no
\*           file behind it, or the path of a file
\*   flag    result['success'], the runner's own flag
\*   gt      the ground-truth screenshot: readable, missing, or over 20 MB
\*   visual  the visual judge service: verdict pass or fail, or an error
\*   html    the structural judge service, likewise
ShotStates == {"absent", "null", "nofile", "file"}
GroundTruthStates == {"ok", "missing", "large"}
JudgeOutcomes == {"pass", "fail", "error"}
EvalInputs ==
    [shot : ShotStates, flag : BOOLEAN, gt : GroundTruthStates,
     visual : JudgeOutcomes, html : JudgeOutcomes]

\* A call either raises, or returns (correctness, reason).
Raised(msg) == [raised |-> TRUE, ok |-> FALSE, reason |-> msg]
Verdict(ok, reason) == [raised |-> FALSE, ok |-> ok, reason |-> reason]

\* compare_images of evaluation/image_match.py.
CompareImages(client, shot, gt, judge) ==
    IF ~client THEN Raised("OpenAI client must be provided")
    ELSE IF shot = "null"
        THEN Raised("stat: path should be string, not NoneType")
    ELSE IF shot = "nofile"
        THEN Verdict(FALSE, "The agent did not generate an image")
    ELSE IF gt = "missing" THEN Raised("No such file or directory")
    ELSE IF gt = "large" THEN Verdict(FALSE, "Image processing error")
    ELSE IF judge = "error" THEN Raised("judge service error")
    ELSE Verdict(judge = "pass", "visual judge response")

\* fuzzy_match_html of evaluation/fuzzy_match.py.
FuzzyMatchHtml(client, judge) ==
    IF ~client THEN Raised("OpenAI client must be provided")
    ELSE IF judge = "error" THEN Verdict(FALSE, "Error comparing HTML")
    ELSE Verdict(judge = "pass", "structural judge reason")

\* 1.0 if correctness else 0.0
Score(ok) == IF ok THEN One ELSE 0

\* final_score = (0.8 * visual_score) + (0.2 * html_score)
VisualWeight == 80
HtmlWeight == 20
FinalScoreP(vs, hs) == (VisualWeight * vs + HtmlWeight * hs) \div One

\* final_score = 0.5 * visual_score + 0.5 * html_score
HalfWeight == 50
FinalScoreS(vs, hs) == (HalfWeight * vs + HalfWeight * hs) \div One

\* success = final_score >= 0.9
Threshold == 90

\* An Evaluation Record. judged: the judgments evaluate_task called for.
EvalRecord(path, ok, vs, hs, fs, nv, nh, vr, hr, err, judged) ==
    [path |-> path, task_id |-> 1, success |-> ok,
     visual_score |-> vs, html_score |-> hs, final_score |-> fs,
     visual_evaluation |-> nv, html_evaluation |-> nh,
     visual_reasoning |-> vr, html_reasoning |-> hr,
     error |-> err, judged |-> judged]

\* evaluate_task with the structural judgment made only for a result the
\* visual judge passed.
EvaluateTaskPShortCut(e) ==
    LET Failed(msg, judged) ==
            EvalRecord("parallel", FALSE, 0, 0, 0, NoScore, NoScore,
                       Null, Null, msg, judged)
        v == CompareImages(TRUE, e.shot, e.gt, e.visual)
        h == IF v.ok THEN FuzzyMatchHtml(TRUE, e.html)
                     ELSE Verdict(FALSE, "not judged")
    IN  IF e.shot = "absent" THEN Failed("'after_screenshot'", {})
        ELSE IF v.raised THEN Failed(v.reason, {"visual"})
        ELSE IF h.raised THEN Failed(h.reason, {"visual", "html"})
        ELSE EvalRecord("parallel", e.flag, Score(v.ok), Score(h.ok),
                        FinalScoreP(Score(v.ok), Score(h.ok)), NoScore, NoScore,
                        v.reason, h.reason, Null,
                        IF v.ok THEN {"visual", "html"} ELSE {"visual"})

\* evaluate_task of evaluation/parallel_eval.py
EvaluateTaskP(e) ==
    LET Failed(msg, judged) ==
            EvalRecord("parallel", FALSE, 0, 0, 0, NoScore, NoScore,
                       Null, Null, msg, judged)
        v == CompareImages(TRUE, e.shot, e.gt, e.visual)
        h == FuzzyMatchHtml(TRUE, e.html)
    IN  IF e.shot = "absent" THEN Failed("'after_screenshot'", {})
        ELSE IF v.raised THEN Failed(v.reason, {"visual"})
        ELSE IF h.raised THEN Failed(h.reason, {"visual", "html"})
        ELSE EvalRecord("parallel", e.flag, Score(v.ok), Score(h.ok),
                        FinalScoreP(Score(v.ok), Score(h.ok)), NoScore, NoScore,
                        v.reason, h.reason, Null, {"visual", "html"})

\* evaluate_task of evaluation/auto_eval.py: it hands no client to the judges
EvaluateTaskS(e) ==
    LET Failed(msg, judged) ==
            EvalRecord("serial", FALSE, NoScore, NoScore, NoScore, NoScore,
                       NoScore, Null, Null, msg, judged)
        v == CompareImages(FALSE, e.shot, e.gt, e.visual)
        h == FuzzyMatchHtml(FALSE, e.html)
        fs == FinalScoreS(Score(v.ok), Score(h.ok))
    IN  IF e.shot = "absent" THEN Failed("'after_screenshot'", {})
        ELSE IF v.raised THEN Failed(v.reason, {"visual"})
        ELSE IF h.raised THEN Failed(h.reason, {"visual", "html"})
        ELSE EvalRecord("serial", fs >= Threshold, NoScore, NoScore, fs,
                        Score(v.ok), Score(h.ok), Null, Null, Null,
                        {"visual", "html"})

\* evaluate_task of either module with its two judgments made in the given
\* order inside the same try block: the first exception ends the evaluation
\* with the error record, otherwise the record is built from both verdicts.
\* <<"visual", "html">> is the order of the code.
EvaluateInOrder(path, e, order) ==
    LET client == path = "parallel"
        Call(j) ==
            IF j = "html" THEN FuzzyMatchHtml(client, e.html)
            ELSE IF e.shot = "absent" THEN Raised("'after_screenshot'")
            ELSE CompareImages(client, e.shot, e.gt, e.visual)
        Called(js) == {j \in js : j = "html" \/ e.shot # "absent"}
        first == Call(order[1])
        second == Call(order[2])
        v == Call("visual")
        h == Call("html")
        fs == FinalScoreS(Score(v.ok), Score(h.ok))
        Failed(msg, judged) ==
            IF path = "parallel"
              THEN EvalRecord("parallel", FALSE, 0, 0, 0, NoScore, NoScore,
                              Null, Null, msg, judged)
              ELSE EvalRecord("serial", FALSE, NoScore, NoScore, NoScore, NoScore,
                              NoScore, Null, Null, msg, judged)
    IN  IF first.raised THEN Failed(first.reason, Called({order[1]}))
        ELSE IF second.raised
            THEN Failed(second.reason, Called({order[1], order[2]}))
        ELSE IF path = "parallel"
            THEN EvalRecord("parallel", e.flag, Score(v.ok), Score(h.ok),
                            FinalScoreP(Score(v.ok), Score(h.ok)), NoScore,
                            NoScore, v.reason, h.reason, Null, {"visual", "html"})
        ELSE EvalRecord("serial", fs >= Threshold, NoScore, NoScore, fs,
                        Score(v.ok), Score(h.ok), Null, Null, Null,
                        {"visual", "html"})

\* The result dict with a key removed by the evaluation.
ResultPopped(e) == [e EXCEPT !.shot = "absent"]

\* The result dict after evaluate_task: both modules read it with [] and
\* .get only, nothing is assigned to it or removed from it.
ResultAfter(e) == e

\* The input of a second evaluation: the same result and ground truth, the
\* judges answering as they answer a second call.
SecondCall(e, next) == [e EXCEPT !.visual = next.visual, !.html = next.html]

\* Bounds of the merge: the lengths of the two lists, the task ids in them.
MaxResults == 2
MaxEvals == 2
EvalIds == 1 .. 2

\* The result records evaluate.py loads: the raw fields the runner wrote,
\* and no derived field yet.
RawResults ==
    {[task_id |-> i, success |-> ok, error |-> IF ok THEN Null ELSE "Click blocked",
      after_screenshot |-> IF ok THEN "after.png" ELSE Null,
      html_element |-> IF ok THEN OuterHTML ELSE Null,
      visual_score |-> NoScore, html_score |-> NoScore, total_score |-> NoScore,
      visual_explanation |-> Null, html_explanation |-> Null] :
        i \in EvalIds, ok \in BOOLEAN}

\* The Evaluation Records the merge is exercised with: what the two
\* evaluate_task return, for either task id.
MergeEvalInputs ==
    {e \in EvalInputs :
        /\ e.shot \in {"null", "file"} /\ e.flag /\ e.gt = "ok"
        /\ e.html \in {"pass", "fail"}}
MergeEvals ==
    {[r EXCEPT !.task_id = i] :
        r \in {EvaluateTaskP(e) : e \in MergeEvalInputs}
              \cup {EvaluateTaskS(e) : e \in MergeEvalInputs},
        i \in EvalIds}

SeqsUpTo(S, n) == UNION {[1 .. k -> S] : k \in 0 .. n}

\* eval_result.get(key, 0.0)
GetScore(x) == IF x = NoScore THEN 0 ELSE x

\* next((e for e in eval_results['evaluations'] if e['task_id'] == task_id),
\* None): the position of the first match, 0 for None
FirstEval(evals, id) ==
    IF \E k \in 1 .. Len(evals) : evals[k].task_id = id
      THEN CHOOSE k \in 1 .. Len(evals) :
               /\ evals[k].task_id = id
               /\ \A j \in 1 .. (k - 1) : evals[j].task_id # id
      ELSE 0

\* result['total_score'] = (result['visual_score'] + result['html_score']) / 2.0
TotalScore(vs, hs) == (vs + hs) \div 2

\* The merge taking the evaluation's verdict for the record's success.
MergeOneOverwriting(r, evals) ==
    LET k == FirstEval(evals, r.task_id)
    IN  IF k = 0 THEN r
        ELSE [r EXCEPT !.success = evals[k].success,
                       !.visual_score = GetScore(evals[k].visual_score),
                       !.html_score = GetScore(evals[k].html_score),
                       !.total_score = TotalScore(GetScore(evals[k].visual_score),
                                                  GetScore(evals[k].html_score))]

\* The body of the loop "for result in results" of evaluate.py. Neither
\* evaluate_task writes a visual_explanation or html_explanation key.
MergeOne(r, evals) ==
    LET k == FirstEval(evals, r.task_id)
    IN  IF k = 0 THEN r
        ELSE [r EXCEPT !.visual_score = GetScore(evals[k].visual_score),
                       !.html_score = GetScore(evals[k].html_score),
                       !.visual_explanation = "",
                       !.html_explanation = "",
                       !.total_score = TotalScore(GetScore(evals[k].visual_score),
                                                  GetScore(evals[k].html_score))]

\* The loop over results of evaluate.py; save_results(results, output_file)
MergeResults(res, evals) == [k \in 1 .. Len(res) |-> MergeOne(res[k], evals)]

InitEval ==
    /\ mode \in {"judge", "merge"}
    /\ ntasks = 0
    /\ run = "idle"
    /\ idx = 0
    /\ pc = [t \in Tasks |-> "pending"]
    /\ result = [t \in Tasks |-> NewResult(t)]
    /\ driver = [t \in Tasks |-> 0]
    /\ sess = [s \in Sessions |-> [state |-> "free", quits |-> 0]]
    /\ results = <<>>
    /\ runDriver = 0
    /\ runError = Null
    /\ started = [t \in Tasks |-> 0]
    /\ phases = [t \in Tasks |-> <<>>]
    /\ fault = [t \in Tasks |-> "none"]
    /\ overdue = [t \in Tasks |-> FALSE]
    /\ xin = Null
    /\ xout = NotCalled
    /\ eout = NotEvaluated /\ eagain = NotEvaluated
    /\ mout = NotMerged
    /\ PoolIdle
    /\ MoreIdle
    /\ IF mode = "judge"
         THEN /\ ein \in EvalInputs
              /\ jnext \in [visual : JudgeOutcomes, html : JudgeOutcomes]
              /\ mres = <<>> /\ mevals = <<>>
         ELSE /\ ein = Null /\ jnext = Null
              /\ mres \in SeqsUpTo(RawResults, MaxResults)
              /\ mevals \in SeqsUpTo(MergeEvals, MaxEvals)

\* evaluate_task(task, result, client) of parallel_eval.py is called on ein.
V_Parallel ==
    /\ mode = "judge" /\ eout.path = "none"
    /\ eout' = EvaluateTaskP(ein)
    /\ ein' = ResultAfter(ein)
    /\ UNCHANGED <<runnerVars, execVars, moreVars, mres, mevals, mout, jnext,
                   eagain, poolVars>>

\* evaluate_task(task, result, ground_truth, client) of auto_eval.py is
\* called on ein.
V_Serial ==
    /\ mode = "judge" /\ eout.path = "none"
    /\ eout' = EvaluateTaskS(ein)
    /\ ein' = ResultAfter(ein)
    /\ UNCHANGED <<runnerVars, execVars, moreVars, mres, mevals, mout, jnext,
                   eagain, poolVars>>

\* The same evaluate_task is called once more on the same task and result;
\* the judges give their second answers.
V_Again ==
    /\ mode = "judge" /\ eout.path # "none" /\ eagain.path = "none"
    /\ eagain' = IF eout.path = "parallel"
                   THEN EvaluateTaskP(SecondCall(ein, jnext))
                   ELSE EvaluateTaskS(SecondCall(ein, jnext))
    /\ ein' = ResultAfter(ein)
    /\ UNCHANGED <<runnerVars, execVars, moreVars, eout, mres, mevals, mout,
                   jnext, poolVars>>

\* The merge loop of evaluate.py runs on mres and mevals.
V_Merge ==
    /\ mode = "merge" /\ mout.state = "none"
    /\ mout' = [state |-> "merged", records |-> MergeResults(mres, mevals)]
    /\ UNCHANGED <<runnerVars, execVars, moreVars, ein, eout, mres, mevals, jnext, eagain, poolVars>>

\* main of evaluate.py: run_evaluation(..., max_workers=...) is called with
\* a keyword the function does not have and without ground_truth_dir; the
\* TypeError is logged and raised again, nothing is merged or saved.
V_Main ==
    /\ mode = "merge" /\ mout.state = "none"
    /\ mout' = [state |-> "raised", records |-> <<>>]
    /\ UNCHANGED <<runnerVars, execVars, moreVars, ein, eout, mres, mevals, jnext, eagain, poolVars>>

NextEval == V_Parallel \/ V_Serial \/ V_Again \/ V_Merge \/ V_Main

SpecEval == InitEval /\ [][NextEval]_vars

(***************************************************************************)
(* RequestPool (models/claude.py) under the worker threads of the parallel *)
(* runner, which share one model adapter.                                  *)
(***************************************************************************)

\* Bounds: how long the clock runs, how many requests one thread sends.
MaxClock == 25
MaxCalls == 3

\* RequestPool.__init__
MaxRequests == 5
Window == 60
MinWait == 12

\* A pruning that keeps every request.
RecentKeepsAll(reqs, now) == reqs

\* self.requests = [t for t in self.requests if now - t < self.window]
Recent(reqs, now) == SelectSeq(reqs, LAMBDA t : now - t < Window)

\* The value can_make_request returns at time now.
CanMakeRequest(reqs, now) ==
    LET recent == Recent(reqs, now)
    IN  /\ ~(recent # <<>> /\ now - recent[Len(recent)] < MinWait)
        /\ Len(recent) < MaxRequests

InitPool ==
    /\ mode = "pool"
    /\ ntasks = 0
    /\ run = "idle"
    /\ idx = 0
    /\ pc = [t \in Tasks |-> "pending"]
    /\ result = [t \in Tasks |-> NewResult(t)]
    /\ driver = [t \in Tasks |-> 0]
    /\ sess = [s \in Sessions |-> [state |-> "free", quits |-> 0]]
    /\ results = <<>>
    /\ runDriver = 0
    /\ runError = Null
    /\ started = [t \in Tasks |-> 0]
    /\ phases = [t \in Tasks |-> <<>>]
    /\ fault = [t \in Tasks |-> "none"]
    /\ overdue = [t \in Tasks |-> FALSE]
    /\ xin = Null
    /\ xout = NotCalled
    /\ ein = Null /\ eout = NotEvaluated /\ eagain = NotEvaluated
    /\ mres = <<>> /\ mevals = <<>> /\ mout = NotMerged /\ jnext = Null
    /\ PoolIdle
    /\ MoreIdle

\* Thread w enters parse_task and reaches the wait loop.
R_Enter(w) ==
    /\ mode = "pool" /\ tpc[w] = "idle" /\ sent[w] < MaxCalls
    /\ tpc' = [tpc EXCEPT ![w] = "check"]
    /\ UNCHANGED <<runnerVars, execVars, moreVars, evalVars, clock, requests, sent, admits>>

\* while not self.request_pool.can_make_request(): time.sleep(1)
\* can_make_request prunes self.requests and answers; it holds no lock.
R_Check(w) ==
    /\ mode = "pool" /\ tpc[w] = "check"
    /\ requests' = Recent(requests, clock)
    /\ tpc' = [tpc EXCEPT ![w] =
                  IF CanMakeRequest(requests, clock) THEN "add" ELSE "sleep"]
    /\ UNCHANGED <<runnerVars, execVars, moreVars, evalVars, clock, sent, admits>>

\* self.request_pool.add_request(), then the request is sent
R_Add(w) ==
    /\ mode = "pool" /\ tpc[w] = "add"
    /\ requests' = Append(requests, clock)
    /\ admits' = Append(admits, clock)
    /\ sent' = [sent EXCEPT ![w] = @ + 1]
    /\ tpc' = [tpc EXCEPT ![w] = "idle"]
    /\ UNCHANGED <<runnerVars, execVars, moreVars, evalVars, clock>>

\* A second passes; every time.sleep(1) under way returns.
R_Tick ==
    /\ mode = "pool" /\ clock < MaxClock
    /\ clock' = clock + 1
    /\ tpc' = [w \in Threads |-> IF tpc[w] = "sleep" THEN "check" ELSE tpc[w]]
    /\ UNCHANGED <<runnerVars, execVars, moreVars, evalVars, requests, sent, admits>>

NextPool == R_Tick \/ \E w \in Threads : R_Enter(w) \/ R_Check(w) \/ R_Add(w)

SpecPool == InitPool /\ [][NextPool]_vars

\* A second passes, in the frame of reference of the present: now stays at
\* clock and every recorded time.time() moves one second into the past.
\* can_make_request reads the recorded times only through now - t, compared
\* with min_wait and window, so the shift is the same as R_Tick for it, and a
\* time that lies window seconds back or more need move no further.  Time
\* can then pass without bound in a finite model.  The step is the return of
\* the time.sleep(1) of the threads that wait; the time that passes while no
\* thread waits is left out, which only keeps the recorded requests younger
\* and so can_make_request false for longer.
R_Pass ==
    /\ mode = "pool"
    /\ \E w \in Threads : tpc[w] = "sleep"
    /\ requests' = [i \in 1 .. Len(requests) |->
                       IF requests[i] - 1 < clock - Window
                       THEN clock - Window ELSE requests[i] - 1]
    /\ tpc' = [w \in Threads |-> IF tpc[w] = "sleep" THEN "check" ELSE tpc[w]]
    /\ UNCHANGED <<runnerVars, execVars, moreVars, evalVars, clock, sent, admits>>

NextPoolLive == R_Pass \/ \E w \in Threads : R_Enter(w) \/ R_Check(w) \/ R_Add(w)

\* Time passes, and every worker thread of the pool is scheduled again and
\* again: its time.sleep(1) returns, and its next statement is executed.  No
\* thread is obliged to call parse_task again.
SpecPoolLive ==
    /\ InitPool /\ [][NextPoolLive]_vars
    /\ WF_vars(R_Pass)
    /\ \A w \in Threads : WF_vars(R_Check(w)) /\ WF_vars(R_Add(w))

(***************************************************************************)
(* BaseModel.run_task (models/base.py): parse the task, execute the        *)
(* interaction, validate the result; on an exception ask handle_error and, *)
(* if it answers with an interaction, call run_task again.                 *)
(***************************************************************************)

\* The interpreter's recursion limit, counted in run_task frames.
RecursionLimit == 4

ParseError == "parse_task failed"
ExecuteError == "execute_interaction failed"
ValidateError == "validate_result failed"
HandlerError == "handle_error failed"
RecursionError == "maximum recursion depth exceeded"

\* A run_task call with no other model state.
RunnerIdle ==
    /\ ntasks = 0 /\ run = "idle" /\ idx = 0
    /\ pc = [t \in Tasks |-> "pending"]
    /\ result = [t \in Tasks |-> NewResult(t)]
    /\ driver = [t \in Tasks |-> 0]
    /\ sess = [s \in Sessions |-> [state |-> "free", quits |-> 0]]
    /\ results = <<>> /\ runDriver = 0 /\ runError = Null
    /\ started = [t \in Tasks |-> 0]
    /\ phases = [t \in Tasks |-> <<>>]
    /\ fault = [t \in Tasks |-> "none"]
    /\ overdue = [t \in Tasks |-> FALSE]
    /\ xin = Null /\ xout = NotCalled

\* model.run_task(task, executor) has just been called.
InitRetry ==
    /\ mode = "retry"
    /\ RunnerIdle
    /\ ein = Null /\ eout = NotEvaluated /\ eagain = NotEvaluated
    /\ mres = <<>> /\ mevals = <<>> /\ mout = NotMerged /\ jnext = Null
    /\ PoolIdle
    /\ BatchIdle /\ TruncIdle
    /\ answer = [t \in Tasks |-> NoAnswer]
    /\ LateIdle
    /\ rtask \in Tasks
    /\ depth = 1 /\ rpc = "parse" /\ rerr = Null
    /\ rret = NotReturned /\ rlog = <<>>
    /\ rinter = NoInteraction /\ rtry = NoInteraction /\ rran = <<>>

\* except Exception as e: the attempt ends in the except clause with str(e).
Caught(step, msg) ==
    /\ rpc' = "handle" /\ rerr' = msg
    /\ rlog' = Append(rlog, step)
    /\ UNCHANGED <<rtask, depth, rret, rinter, rtry, rran>>

\* interaction = self.parse_task(task)
T_ParseTask ==
    /\ mode = "retry" /\ rpc = "parse"
    /\ \/ /\ rpc' = "execute"
          /\ rinter' = [by |-> "parse_task", attempt |-> depth]
          /\ UNCHANGED <<rtask, depth, rerr, rret, rlog, rtry, rran>>
       \/ Caught("parse", ParseError)
    /\ UNCHANGED <<runnerVars, execVars, evalVars, poolVars, batchVars,
                   truncVars, answer, lateVars>>

\* result = executor.execute_interaction(interaction)
T_Execute ==
    /\ mode = "retry" /\ rpc = "execute"
    /\ rran' = Append(rran, [attempt |-> depth, interaction |-> rinter])
    /\ \/ rpc' = "validate" /\ UNCHANGED <<rtask, depth, rerr, rret, rlog, rinter, rtry>>
       \/ /\ rpc' = "handle" /\ rerr' = ExecuteError
          /\ rlog' = Append(rlog, "execute")
          /\ UNCHANGED <<rtask, depth, rret, rinter, rtry>>
    /\ UNCHANGED <<runnerVars, execVars, evalVars, poolVars, batchVars,
                   truncVars, answer, lateVars>>

\* success = self.validate_result(task, result); result.success = success;
\* return result.  Every caller returns what its callee returned.
T_Validate ==
    /\ mode = "retry" /\ rpc = "validate"
    /\ \/ \E ok \in BOOLEAN :
            /\ rpc' = "done"
            /\ rret' = [kind |-> "result", task_id |-> rtask,
                        success |-> ok, error |-> Null]
            /\ UNCHANGED <<rtask, depth, rerr, rlog, rinter, rtry, rran>>
       \/ Caught("validate", ValidateError)
    /\ UNCHANGED <<runnerVars, execVars, evalVars, poolVars, batchVars,
                   truncVars, answer, lateVars>>

\* The local interaction of the frame self.run_task(task, executor) opens: the
\* call passes the task and the executor only, so the new frame starts with no
\* interaction and binds the one its own parse_task returns.
NextInteraction(try_again) == NoInteraction

\* try_again = self.handle_error(task, str(e)); if try_again: return
\* self.run_task(task, executor); else the failure TaskResult is returned.
\* The call is made in the except clause, so an exception of handle_error,
\* or of the call of run_task that finds the stack full, leaves every
\* run_task frame.
T_HandleError ==
    /\ mode = "retry" /\ rpc = "handle"
    /\ \/ /\ depth < RecursionLimit
          /\ rtry' = [by |-> "handle_error", attempt |-> depth]
          /\ depth' = depth + 1 /\ rpc' = "parse" /\ rerr' = Null
          /\ rinter' = NextInteraction(rtry')
          /\ UNCHANGED <<rtask, rret, rlog, rran>>
       \/ /\ depth = RecursionLimit
          /\ rtry' = [by |-> "handle_error", attempt |-> depth]
          /\ rpc' = "done"
          /\ rret' = [kind |-> "raised", task_id |-> 0,
                      success |-> FALSE, error |-> RecursionError]
          /\ UNCHANGED <<rtask, depth, rerr, rlog, rinter, rran>>
       \/ /\ rtry' = NoInteraction
          /\ rpc' = "done"
          /\ rret' = [kind |-> "result", task_id |-> rtask,
                      success |-> FALSE, error |-> rerr]
          /\ UNCHANGED <<rtask, depth, rerr, rlog, rinter, rran>>
       \/ /\ rpc' = "done"
          /\ rret' = [kind |-> "raised", task_id |-> 0,
                      success |-> FALSE, error |-> HandlerError]
          /\ UNCHANGED <<rtask, depth, rerr, rlog, rinter, rtry, rran>>
    /\ UNCHANGED <<runnerVars, execVars, evalVars, poolVars, batchVars,
                   truncVars, answer, lateVars>>

NextRetry == T_ParseTask \/ T_Execute \/ T_Validate \/ T_HandleError

SpecRetry == InitRetry /\ [][NextRetry]_vars

(***************************************************************************)
(* The batch loops: TaskRunner.run_tasks (parallel_runner.py) over the     *)
(* tasks and run_parallel_evaluation (evaluation/parallel_eval.py) over    *)
(* the task-result pairs.  The work on one item is a call that starts and  *)
(* finishes; the loop submits a batch to a fresh pool, collects every      *)
(* future and goes on.                                                     *)
(***************************************************************************)

\* The largest max_workers a run is configured with.
MaxConfigured == 4

\* batch_size = min(max_workers, 3)
WorkerCap == 3

Min(a, b) == IF a < b THEN a ELSE b

\* batch_size of run_tasks and of run_parallel_evaluation
BatchSizeOf(impl, workers) ==
    IF impl = "runner" THEN workers ELSE Min(workers, WorkerCap)

\* tasks[i:i + batch_size], items counted from 1
Slice(i, size, n) == {k \in Items : i < k /\ k <= i + size /\ k <= n}

BatchNow == Slice(bi, BatchSizeOf(bimpl, bworkers), bn)

InitBatch ==
    /\ mode = "batch"
    /\ RunnerIdle
    /\ ein = Null /\ eout = NotEvaluated /\ eagain = NotEvaluated
    /\ mres = <<>> /\ mevals = <<>> /\ mout = NotMerged /\ jnext = Null
    /\ PoolIdle
    /\ RetryIdle /\ TruncIdle
    /\ answer = [t \in Tasks |-> NoAnswer]
    /\ LateIdle
    /\ bimpl \in {"runner", "eval"}
    /\ bworkers \in 1 .. MaxConfigured
    /\ bn \in 0 .. MaxItems
    /\ bi = 0 /\ brun = "loop"
    /\ bpc = [k \in Items |-> "pending"]
    /\ bslept = 0 /\ bsizes = <<>> /\ bout = <<>>
    /\ blate = {} /\ bres = [k \in Items |-> "none"]

\* for i in range(0, n, batch_size): batch = items[i:i + batch_size];
\* with ThreadPoolExecutor(max_workers=batch_size): executor.submit per item
B_Submit ==
    /\ mode = "batch" /\ brun = "loop" /\ bi < bn
    /\ bpc' = [k \in Items |-> IF k \in BatchNow THEN "queued" ELSE bpc[k]]
    /\ bsizes' = Append(bsizes, Cardinality(BatchNow))
    /\ brun' = "collect"
    /\ UNCHANGED <<bimpl, bworkers, bn, bi, bslept, bout, blate, bres>>
    /\ UNCHANGED <<runnerVars, execVars, evalVars, poolVars, retryVars,
                   truncVars, answer, lateVars>>

\* A pool thread enters execute_task or evaluate_task on item k.
B_Start(k) ==
    /\ mode = "batch" /\ bpc[k] = "queued"
    /\ bpc' = [bpc EXCEPT ![k] = "running"]
    /\ UNCHANGED <<bimpl, bworkers, bn, bi, brun, bslept, bsizes, bout, blate, bres>>
    /\ UNCHANGED <<runnerVars, execVars, evalVars, poolVars, retryVars,
                   truncVars, answer, lateVars>>

\* The call on item k is still running 60 seconds after it started.  Nothing
\* observes this: the batch loop is blocked in as_completed, which yields a
\* future only when it is done.
B_Overrun(k) ==
    /\ mode = "batch" /\ bpc[k] = "running" /\ k \notin blate
    /\ blate' = blate \cup {k}
    /\ UNCHANGED <<bimpl, bworkers, bn, bi, brun, bpc, bslept, bsizes, bout, bres>>
    /\ UNCHANGED <<runnerVars, execVars, evalVars, poolVars, retryVars,
                   truncVars, answer, lateVars>>

\* The call on item k returns or raises: its future is done.
B_Finish(k) ==
    /\ mode = "batch" /\ bpc[k] = "running"
    /\ bpc' = [bpc EXCEPT ![k] = "finished"]
    /\ \E end \in {"returned", "raised"} : bres' = [bres EXCEPT ![k] = end]
    /\ UNCHANGED <<bimpl, bworkers, bn, bi, brun, bslept, bsizes, bout, blate>>
    /\ UNCHANGED <<runnerVars, execVars, evalVars, poolVars, retryVars,
                   truncVars, answer, lateVars>>

\* What the loop appends for item k: future.result(timeout=60) is called on a
\* future that is done, so it returns the call's value or raises the call's
\* exception at once, whatever time the call took; the except clause builds
\* the error record.
Appended(k) == IF bres[k] = "raised" THEN "error" ELSE "result"

\* for future in as_completed(...): the result, or the record built in the
\* except clause, is appended.
B_Collect(k) ==
    /\ mode = "batch" /\ brun = "collect"
    /\ k \in BatchNow /\ bpc[k] = "finished"
    /\ bpc' = [bpc EXCEPT ![k] = "collected"]
    /\ bout' = Append(bout, k)
    /\ UNCHANGED <<bimpl, bworkers, bn, bi, brun, bslept, bsizes, blate, bres>>
    /\ UNCHANGED <<runnerVars, execVars, evalVars, poolVars, retryVars,
                   truncVars, answer, lateVars>>

\* as_completed is exhausted and the pool shuts down.  run_tasks goes on to
\* the next batch; run_parallel_evaluation first sleeps when
\* i + batch_size < len(task_pairs).
B_BatchDone ==
    /\ mode = "batch" /\ brun = "collect"
    /\ \A k \in BatchNow : bpc[k] = "collected"
    /\ IF bimpl = "eval" /\ bi + BatchSizeOf(bimpl, bworkers) < bn
         THEN brun' = "sleep" /\ UNCHANGED bi
         ELSE brun' = "loop" /\ bi' = bi + BatchSizeOf(bimpl, bworkers)
    /\ UNCHANGED <<bimpl, bworkers, bn, bpc, bslept, bsizes, bout, blate, bres>>
    /\ UNCHANGED <<runnerVars, execVars, evalVars, poolVars, retryVars,
                   truncVars, answer, lateVars>>

\* time.sleep(1) of run_parallel_evaluation returns.
B_Sleep ==
    /\ mode = "batch" /\ brun = "sleep"
    /\ bslept' = bslept + 1
    /\ bi' = bi + BatchSizeOf(bimpl, bworkers)
    /\ brun' = "loop"
    /\ UNCHANGED <<bimpl, bworkers, bn, bpc, bsizes, bout, blate, bres>>
    /\ UNCHANGED <<runnerVars, execVars, evalVars, poolVars, retryVars,
                   truncVars, answer, lateVars>>

\* The loop is over: return results, or the evaluations are saved.
B_Return ==
    /\ mode = "batch" /\ brun = "loop" /\ bi >= bn
    /\ brun' = "returned"
    /\ UNCHANGED <<bimpl, bworkers, bn, bi, bpc, bslept, bsizes, bout, blate, bres>>
    /\ UNCHANGED <<runnerVars, execVars, evalVars, poolVars, retryVars,
                   truncVars, answer, lateVars>>

NextBatch ==
    \/ B_Submit \/ B_BatchDone \/ B_Sleep \/ B_Return
    \/ \E k \in Items : B_Start(k) \/ B_Overrun(k) \/ B_Finish(k) \/ B_Collect(k)

SpecBatch == InitBatch /\ [][NextBatch]_vars

(***************************************************************************)
(* The request fuzzy_match_html (evaluation/fuzzy_match.py) sends to the   *)
(* structural judge, by the lengths of the three texts in it.              *)
(***************************************************************************)

\* The longest text handed to fuzzy_match_html.
MaxLen == 2500

\* max_html_length, max_task_length and len("...")
MaxHtmlLength == 2000
MaxTaskLength == 500
EllipsisLen == 3

\* The lengths the call is exercised with: around both budgets and beyond.
Lengths ==
    {0, MaxTaskLength, MaxTaskLength + 1, MaxTaskLength + EllipsisLen + 1,
     MaxHtmlLength, MaxHtmlLength + 1, MaxHtmlLength + EllipsisLen + 1, MaxLen}

TruncInputs == [task_description : Lengths, actual_html : Lengths,
                expected_html : Lengths]

\* s = s[:max] + "..." if len(s) > max
Truncate(n, max) == IF n > max THEN max + EllipsisLen ELSE n

\* fuzzy_match_html up to the call of the judge: messages is built from the
\* arguments as they came in, then the three local names are truncated, then
\* messages is sent.
\*   request  the lengths of the texts inside messages
\*   locals   the lengths of the local variables when the request is sent
FuzzyMatchRequest(f) ==
    LET messages == [task_description |-> f.task_description,
                     actual_html |-> f.actual_html,
                     expected_html |-> f.expected_html]
        locals == [task_description |-> Truncate(f.task_description, MaxTaskLength),
                   actual_html |-> Truncate(f.actual_html, MaxHtmlLength),
                   expected_html |-> Truncate(f.expected_html, MaxHtmlLength)]
    IN  [sent |-> TRUE, request |-> messages, locals |-> locals]

InitTrunc ==
    /\ mode = "trunc"
    /\ RunnerIdle
    /\ ein = Null /\ eout = NotEvaluated /\ eagain = NotEvaluated
    /\ mres = <<>> /\ mevals = <<>> /\ mout = NotMerged /\ jnext = Null
    /\ PoolIdle
    /\ RetryIdle /\ BatchIdle
    /\ answer = [t \in Tasks |-> NoAnswer]
    /\ LateIdle
    /\ fin \in TruncInputs
    /\ fout = NotSent

\* fuzzy_match_html(task_description, actual_html, expected_html,
\* openai_client=client) is called on texts of the lengths fin.
F_FuzzyMatch ==
    /\ mode = "trunc" /\ ~fout.sent
    /\ fout' = FuzzyMatchRequest(fin)
    /\ UNCHANGED <<runnerVars, execVars, evalVars, poolVars, retryVars,
                   batchVars, answer, lateVars, fin>>

NextTrunc == F_FuzzyMatch

SpecTrunc == InitTrunc /\ [][NextTrunc]_vars

\* ---------------------------------------------------------------------
\* parse_task and _call_api of the model adapters (src/models/gpt4.py,
\* src/models/gemini.py).

\* self.max_retries.
MaxRetries == 10

Adapters == {"gpt4", "gemini"}

\* How one attempt of _call_api can end.  GPT4Model never assigns
\* self.max_tokens, so evaluating the arguments of create() raises
\* AttributeError inside the try before any request is sent; GeminiModel sends
\* the request, which returns a response with parts ("ok"), returns one without
\* parts (the adapter raises "Empty response from Gemini"), or raises.
Attempts(impl) ==
    IF impl = "gpt4" THEN {"AttributeError"}
    ELSE {"ok", "Empty response", "APIError"}

RECURSIVE Pow2(_)
Pow2(k) == IF k = 0 THEN 1 ELSE 2 * Pow2(k - 1)

Max(a, b) == IF a > b THEN a ELSE b

\* wait_time of the attempt retry_count that raised e.
WaitTime(impl, e, retry_count) ==
    IF impl = "gpt4"
    THEN LET wait_time == Min(Pow2(retry_count), 60)
         IN  IF e = "RateLimitError" THEN Max(wait_time, 10)
             ELSE IF e = "APIError" THEN Max(wait_time, 15)
             ELSE wait_time
    ELSE Min(Pow2(retry_count), 8)

\* A ceiling one attempt too high.
RetriesExceededLate(retry_count) == retry_count > MaxRetries

\* if retry_count >= self.max_retries.
RetriesExceeded(retry_count) == retry_count >= MaxRetries

\* parse_task(task, page_html) has just been called.
InitApi ==
    /\ mode = "api"
    /\ RunnerIdle
    /\ ein = Null /\ eout = NotEvaluated /\ eagain = NotEvaluated
    /\ mres = <<>> /\ mevals = <<>> /\ mout = NotMerged /\ jnext = Null
    /\ PoolIdle
    /\ RetryIdle /\ BatchIdle /\ TruncIdle
    /\ answer = [t \in Tasks |-> NoAnswer]
    /\ PairIdle
    /\ aimpl \in Adapters
    /\ acount = 0 /\ apc = "tokens" /\ aret = NoReturn
    /\ alog = <<>> /\ aslept = 0 /\ aparsed = "pending"

ApiFrame == <<runnerVars, execVars, evalVars, poolVars, retryVars, batchVars,
              truncVars, answer, pairVars>>

\* parse_task counts the tokens of the messages: over the limit it logs the
\* task as skipped and returns None, otherwise it calls _call_api(messages).
A_CountTokens ==
    /\ mode = "api" /\ apc = "tokens"
    /\ \E over \in BOOLEAN :
          IF over
          THEN apc' = "done" /\ aparsed' = "none"
          ELSE apc' = "call" /\ aparsed' = aparsed
    /\ UNCHANGED <<ApiFrame, aimpl, acount, aret, alog, aslept>>

\* One frame of _call_api(messages, retry_count): the try block, and in the
\* except clause either the return of (None, True) or the sleep followed by
\* the recursive call, whose return value every frame hands on unchanged.
A_CallApi ==
    /\ mode = "api" /\ apc = "call"
    /\ \E e \in Attempts(aimpl) :
          /\ alog' = Append(alog, e)
          /\ IF e = "ok"
             THEN /\ aret' = [returned |-> TRUE, response |-> "response", error |-> FALSE]
                  /\ apc' = "returned"
                  /\ UNCHANGED <<acount, aslept>>
             ELSE IF RetriesExceeded(acount)
             THEN /\ aret' = [returned |-> TRUE, response |-> Null, error |-> TRUE]
                  /\ apc' = "returned"
                  /\ UNCHANGED <<acount, aslept>>
             ELSE /\ aslept' = aslept + WaitTime(aimpl, e, acount)
                  /\ acount' = acount + 1
                  /\ UNCHANGED <<aret, apc>>
    /\ UNCHANGED <<ApiFrame, aimpl, aparsed>>

\* parse_task after _call_api: None on an error or an empty response,
\* otherwise the interaction parsed from the response, and None from
\* _create_fallback_interaction when the response cannot be parsed.
A_ParseResponse ==
    /\ mode = "api" /\ apc = "returned"
    /\ IF aret.error \/ aret.response = Null
       THEN aparsed' = "none"
       ELSE \E parsed \in {"interaction", "none"} : aparsed' = parsed
    /\ apc' = "done"
    /\ UNCHANGED <<ApiFrame, aimpl, acount, aret, alog, aslept>>

NextApi == A_CountTokens \/ A_CallApi \/ A_ParseResponse

SpecApi == InitApi /\ [][NextApi]_vars

\* The adapter runs in one thread and each of its steps is a blocking call that
\* returns or raises: an attempt of the request, time.sleep, the parsing.
SpecApiLive == SpecApi /\ WF_vars(NextApi)

(***************************************************************************)
(* Properties.                                                             *)
(***************************************************************************)

\* Positions of the result list holding a record of task t.
Records(t) == {k \in 1 .. Len(results) : results[k].task_id = t}

\* The task a record of the result list belongs to.
TaskOf(k) == results[k].task_id

Live == {s \in Sessions : sess[s].state = "live"}

\* Positions of execute_task between the acquisition of the session and the
\* end of the finally block.
Holding == {"nav", "before", "parse", "interact", "after", "finally"}

(***************************************************************************)
(* run_parallel_evaluation (evaluation/parallel_eval.py) and run_evaluation *)
(* (evaluation/auto_eval.py): which tasks of the corpus get an Evaluation   *)
(* Record, and the totals written with the records.                        *)
(***************************************************************************)

\* The tasks of the largest corpus and the records of the longest results file.
MaxCorpus == 3
MaxLoaded == 3

\* The task ids a result record can carry: those of the corpus and one more.
ResultIds == 1 .. MaxCorpus + 1

\* A pairing that finds a result for every task.
HasResultAlways(res, task_id) == TRUE

\* next((r for r in results if r.get('task_id') == task_id), None) is not None
HasResult(res, task_id) == \E j \in 1 .. Len(res) : res[j] = task_id

\* sum(1 for e in evaluations if e.get("success", False))
Successful(evals) == Cardinality({i \in 1 .. Len(evals) : evals[i].success})

\* The tasks and the results have been loaded.
InitPair ==
    /\ mode = "pair"
    /\ RunnerIdle
    /\ ein = Null /\ eout = NotEvaluated /\ eagain = NotEvaluated
    /\ mres = <<>> /\ mevals = <<>> /\ mout = NotMerged /\ jnext = Null
    /\ PoolIdle
    /\ RetryIdle /\ BatchIdle /\ TruncIdle
    /\ answer = [t \in Tasks |-> NoAnswer]
    /\ ApiIdle
    /\ qimpl \in {"parallel_eval", "auto_eval"}
    /\ qn \in 0 .. MaxCorpus
    /\ qres \in SeqsUpTo(ResultIds, MaxLoaded)
    /\ qi = 0 /\ qpairs = <<>> /\ qevals = <<>> /\ qout = NotWritten

PairFrame == <<runnerVars, execVars, evalVars, poolVars, retryVars, batchVars,
               truncVars, answer, apiVars>>

\* One iteration of `for task in tasks`: the task is passed over when no
\* result carries its id; otherwise run_parallel_evaluation appends the pair
\* to task_pairs, and run_evaluation evaluates the task and appends the record.
Q_Task ==
    /\ mode = "pair" /\ qi < qn
    /\ qi' = qi + 1
    /\ IF ~HasResult(qres, qi + 1)
         THEN UNCHANGED <<qpairs, qevals>>
         ELSE IF qimpl = "parallel_eval"
         THEN qpairs' = Append(qpairs, qi + 1) /\ UNCHANGED qevals
         ELSE /\ \E ok \in BOOLEAN :
                    qevals' = Append(qevals, [task_id |-> qi + 1, success |-> ok])
              /\ UNCHANGED qpairs
    /\ UNCHANGED <<PairFrame, qimpl, qn, qres, qout>>

\* run_parallel_evaluation appends the record of a pair, evaluate_task's or
\* the error record of the except clause, in the order the futures complete.
Q_Evaluate(k) ==
    /\ mode = "pair" /\ qimpl = "parallel_eval" /\ qi = qn
    /\ k \in 1 .. Len(qpairs)
    /\ \A i \in 1 .. Len(qevals) : qevals[i].task_id # qpairs[k]
    /\ \E ok \in BOOLEAN :
          qevals' = Append(qevals, [task_id |-> qpairs[k], success |-> ok])
    /\ UNCHANGED <<PairFrame, qimpl, qn, qres, qi, qpairs, qout>>

\* The output {total_tasks, successful_tasks, evaluations} is written.
Q_Write ==
    /\ mode = "pair" /\ qi = qn /\ ~qout.written
    /\ qimpl = "parallel_eval" => Len(qevals) = Len(qpairs)
    /\ qout' = [written |-> TRUE, total_tasks |-> qn,
                successful_tasks |-> Successful(qevals),
                evaluations |-> qevals]
    /\ UNCHANGED <<PairFrame, qimpl, qn, qres, qi, qpairs, qevals>>

NextPair == Q_Task \/ (\E k \in 1 .. MaxCorpus : Q_Evaluate(k)) \/ Q_Write

SpecPair == InitPair /\ [][NextPair]_vars

\* C1: when the parallel run_tasks returns, the result list holds exactly one
\* record per input task id; no task is entered twice, none is left out, no
\* record is duplicated, whatever the completion order and the outcomes.
C1_OneRecordPerTask ==
    mode = "parallel" =>
        /\ \A t \in Tasks : started[t] <= 1 /\ Cardinality(Records(t)) <= 1
        /\ \A k \in 1 .. Len(results) : TaskOf(k) \in 1 .. ntasks
        /\ run = "returned" =>
              /\ Len(results) = ntasks
              /\ \A t \in 1 .. ntasks :
                    started[t] = 1 /\ Cardinality(Records(t)) = 1

\* A full parallel run has returned, its first record is not the first task's,
\* and it holds a success, a failed interaction and a raised exception.
C1_Witness ==
    /\ mode = "parallel" /\ run = "returned" /\ ntasks = NumTasks
    /\ TaskOf(1) # 1
    /\ \E k \in 1 .. Len(results) : results[k].success
    /\ \E k \in 1 .. Len(results) : fault[TaskOf(k)] = "interaction"
    /\ \E k \in 1 .. Len(results) : fault[TaskOf(k)] = "adapter"

\* C2: every session setup_driver returned is quit exactly once, before the
\* execute_task that acquired it returns, on every exit path; when the run
\* has ended (returned or raised) no such session is still live.
C2_SessionsReleasedOnce ==
    /\ \A s \in Sessions : sess[s].quits <= 1
    /\ \A t \in Tasks :
          (pc[t] \in {"done", "raised", "collected"} /\ driver[t] # 0) =>
              sess[driver[t]] = [state |-> "quit", quits |-> 1]
    /\ run \in {"returned", "raised"} => Live = {}
    /\ run = "returned" /\ runDriver # 0 =>
          sess[runDriver] = [state |-> "quit", quits |-> 1]

\* A run has returned in which one task ended by an exception raised after
\* its session was acquired, one by a failed interaction, and one was skipped
\* by the model adapter; each had a session, now quit.
C2_Witness ==
    /\ run = "returned"
    /\ \E t \in Tasks : fault[t] = "capture_before" /\ driver[t] # 0
    /\ \E t \in Tasks : fault[t] = "interaction" /\ driver[t] # 0
    /\ \E t \in Tasks : fault[t] = "no_interaction" /\ driver[t] # 0

\* C3: in a parallel run no two tasks hold the same session, every live
\* session is held by exactly one task that is running, and at most
\* max_workers sessions are live at any moment.
C3_SessionExclusive ==
    mode = "parallel" =>
        /\ \A t, u \in Tasks :
              (t # u /\ pc[t] \in Holding /\ pc[u] \in Holding
                     /\ driver[t] # 0 /\ driver[u] # 0) => driver[t] # driver[u]
        /\ \A s \in Live :
              Cardinality({t \in Tasks : pc[t] \in Holding /\ driver[t] = s}) = 1
        /\ Cardinality(Live) <= MaxWorkers

\* max_workers sessions are live at once, in the hands of distinct tasks.
C3_Witness ==
    /\ mode = "parallel"
    /\ Cardinality(Live) = MaxWorkers
    /\ Cardinality({t \in Tasks : pc[t] \in Holding /\ driver[t] # 0}) = MaxWorkers

\* The ways execute_task (parallel) ends by an exception.
Exceptions ==
    {"setup", "nourl", "navigate", "capture_before", "adapter", "capture_after"}

\* C4: in a parallel run an exception raised while executing a task, in
\* whatever phase, never aborts the run and becomes a record with
\* success=false and the error set; every task still gets its record.
C4_ExceptionIsolated ==
    mode = "parallel" =>
        /\ run # "raised"
        /\ \A k \in 1 .. Len(results) :
              fault[TaskOf(k)] \in Exceptions =>
                  ~results[k].success /\ results[k].error # Null
        /\ run = "returned" =>
              \A t \in 1 .. ntasks : Cardinality(Records(t)) = 1

\* C5: a task that outlasts the per-task timeout ends with success=false and
\* a timeout error, and the runner does not sit waiting for it while tasks
\* of later batches remain.
C5_TimeoutRecorded ==
    mode = "parallel" =>
        /\ \A k \in 1 .. Len(results) :
              overdue[TaskOf(k)] =>
                  ~results[k].success /\ results[k].error = "timeout"
        /\ \A t \in Tasks :
              ~ ( /\ run = "collect" /\ overdue[t] /\ pc[t] \in Running
                  /\ \A u \in Batch(idx) \ {t} : pc[u] = "collected"
                  /\ idx + BatchSize < ntasks )

\* The session task t works on: its own, or in run.py the run's.
SessionOf(t) == IF mode = "main" THEN runDriver ELSE driver[t]

\* The canonical order of the phases of one task.
Rank(phase) ==
    CASE phase = "navigate" -> 1
      [] phase = "capture_before" -> 2
      [] phase = "interact" -> 3
      [] phase = "capture_after" -> 4
      [] phase = "release" -> 5

\* C6: the phases a task performs come in the order navigate, capture before,
\* interact, capture after, release; a task that has a session works on a
\* live one, and once execute_task is over the release is the last phase.
C6_PhasesInOrder ==
    \A t \in Tasks :
        /\ \A i, j \in 1 .. Len(phases[t]) :
              i < j => Rank(phases[t][i]) < Rank(phases[t][j])
        /\ pc[t] \in {"nav", "before", "parse", "interact", "after"} =>
              SessionOf(t) # 0 /\ sess[SessionOf(t)].state = "live"
        /\ (pc[t] \in {"done", "collected"} /\ driver[t] # 0) =>
              /\ phases[t][Len(phases[t])] = "release"
              /\ sess[driver[t]].state = "quit"
        /\ (run = "returned" /\ runDriver # 0) => sess[runDriver].state = "quit"

\* A parallel task went through all five phases and its record is in the
\* result list.
C6_Witness ==
    \E t \in Tasks :
        /\ mode = "parallel" /\ pc[t] = "collected"
        /\ phases[t] = <<"navigate", "capture_before", "interact",
                         "capture_after", "release">>

\* C7: every record has a boolean success, and every record with
\* success=false carries a non-empty error.
C7_FailureCarriesError ==
    mode \in {"parallel", "serial"} =>
        \A k \in 1 .. Len(results) :
            /\ results[k].success \in BOOLEAN
            /\ ~results[k].success => results[k].error \notin {Null, ""}

\* C8: a task whose interaction was executed successfully and in which
\* nothing else failed yields success=true, the element's HTML and an
\* after-screenshot, in serial and in parallel mode.
C8_SuccessfulInteraction ==
    mode \in {"parallel", "serial"} =>
        \A k \in 1 .. Len(results) :
            fault[TaskOf(k)] = "none" =>
                /\ results[k].success
                /\ results[k].html_element = OuterHTML
                /\ results[k].after_screenshot # Null

\* C9 as stated: a setup_driver failure stops the run with that error; no
\* record of a per-task failure is made for it.
C9_SetupFailureIsFatal ==
    mode \in {"parallel", "serial"} =>
        /\ \A k \in 1 .. Len(results) : fault[TaskOf(k)] # "setup"
        /\ \A t \in Tasks :
              (fault[t] = "setup" /\ pc[t] \in {"done", "collected"}) =>
                  run = "raised" /\ runError = SessionError

\* C9 amended: a setup_driver failure inside execute_task becomes that task's
\* record (success=false, the error set from the exception) and the run goes
\* on to a record for every task; only the failure of the serial runner's
\* own setup_driver ends the run with that error, before any task is
\* entered.
C9_SetupFailureRecorded ==
    mode \in {"parallel", "serial"} =>
        /\ \A k \in 1 .. Len(results) :
              fault[TaskOf(k)] = "setup" =>
                  /\ ~results[k].success
                  /\ results[k].error \in {SessionError, SerialError(SessionError)}
        /\ runError = SessionError =>
              /\ mode = "serial" /\ run = "raised"
              /\ results = <<>>
              /\ \A t \in Tasks : started[t] = 0
        /\ run = "returned" =>
              \A t \in 1 .. ntasks :
                  started[t] = 1 /\ Cardinality(Records(t)) = 1

\* The first task's setup_driver failed and the run returned with a record
\* for it and a record for a later task that reached its interaction.
C9_Witness ==
    /\ mode \in {"parallel", "serial"}
    /\ run = "returned" /\ ntasks = NumTasks
    /\ fault[1] = "setup"
    /\ \E k \in 1 .. Len(results) : TaskOf(k) = 1 /\ ~results[k].success
    /\ \E k \in 1 .. Len(results) : TaskOf(k) = NumTasks /\ fault[NumTasks] = "none"

\* The selector types the called executor supports.
Supported == IF xout.impl = "parallel" THEN SelectorMapP ELSE SelectorMapU

\* C10: called with a selector type it does not support, the executor
\* returns success=false with an invalid-selector error and has made no call
\* on the browser.
C10_InvalidSelectorRejected ==
    (mode = "exec" /\ xout.impl # "none" /\ xin.stype \notin Supported) =>
        /\ ~xout.ret.success
        /\ xout.ret.error = "Invalid selector type"
        /\ xout.ret.calls = <<>>

\* execute_interaction has been called on a selector type it supports.
Resolved == mode = "exec" /\ xout.impl # "none" /\ xin.stype \in Supported

\* Position of the first occurrence of call c in the sequence calls, 0 if none.
CallIndex(calls, c) ==
    IF \E i \in 1 .. Len(calls) : calls[i] = c
      THEN CHOOSE i \in 1 .. Len(calls) :
               calls[i] = c /\ \A j \in 1 .. (i - 1) : calls[j] # c
      ELSE 0

\* C11: whenever the presence wait found the element, the executor returns
\* the element's outer HTML, whatever happens afterwards, and it reads the
\* HTML before it waits for interactability.
C11_HtmlKeptOnceFound ==
    (Resolved /\ xin.present) =>
        /\ xout.ret.html_element = OuterHTML
        /\ CallIndex(xout.ret.calls, "get_outerHTML")
               < CallIndex(xout.ret.calls, "wait_interactable")

\* The error kinds the parallel executor can return.
NotFound == "Element not found"
InvalidSelector == "Invalid selector type"

\* C12: a failed call returns an error kind; element-not-found is returned
\* exactly when the element never became present, invalid-selector exactly
\* when the selector type is not supported, and a failure after the element
\* was found has a kind of its own.
C12_FailureKindsDistinct ==
    (mode = "exec" /\ xout.impl # "none" /\ ~xout.ret.success) =>
        /\ xout.ret.error # Null
        /\ xout.ret.error = InvalidSelector <=> xin.stype \notin Supported
        /\ xout.ret.error = NotFound <=> (xin.stype \in Supported /\ ~xin.present)

\* The selector types the spec lists.
SpecSelectorTypes == {"id", "class", "css", "xpath", "name", "tag", "text"}

\* C13: a click on an element that is present and interactable, addressed by
\* any of the seven selector types, is not turned down for its selector type:
\* the executor goes to the browser and succeeds.
C13_SevenSelectorTypes ==
    ( /\ mode = "exec" /\ xout.impl # "none"
      /\ xin.stype \in SpecSelectorTypes /\ xin.action = "click"
      /\ xin.present /\ xin.ready = "ok" /\ xin.act = "ok" ) =>
        /\ xout.ret.calls # <<>>
        /\ xout.ret.success

\* C14: hover on an element that is present and reacts moves the pointer to
\* it and succeeds, in the executor of either runner.
C14_HoverSucceeds ==
    ( /\ Resolved /\ xin.action = "hover"
      /\ xin.present /\ xin.ready = "ok" /\ xin.act = "ok" ) =>
        /\ xout.ret.success
        /\ CallIndex(xout.ret.calls, "move_to_element") > 0

\* An evaluate_task has returned eout; the merge loop has produced mout.
Evaluated == mode = "judge" /\ eout.path # "none"
Merged == mode = "merge" /\ mout.state = "merged"

\* The two scores an Evaluation Record carries, wherever it keeps them.
VisualOf(r) == IF r.visual_score # NoScore THEN r.visual_score ELSE r.visual_evaluation
HtmlOf(r) == IF r.html_score # NoScore THEN r.html_score ELSE r.html_evaluation

\* C15: wherever a final score is recorded it is 0.8 x the visual score plus
\* 0.2 x the structural score: in the record of either evaluate_task and in
\* the total_score the merge writes.
C15_FinalScoreWeighted ==
    /\ (Evaluated /\ eout.final_score # NoScore) =>
          eout.final_score = FinalScoreP(VisualOf(eout), HtmlOf(eout))
    /\ Merged =>
          \A k \in 1 .. Len(mout.records) :
              mout.records[k].total_score # NoScore =>
                  mout.records[k].total_score =
                      FinalScoreP(mout.records[k].visual_score,
                                  mout.records[k].html_score)

\* C16: the success of an Evaluation Record is true exactly when its final
\* score reaches the threshold, whatever the runner's own flag was.
C16_SuccessIffThreshold ==
    Evaluated =>
        (eout.success <=>
            (eout.final_score # NoScore /\ eout.final_score >= Threshold))

\* C17: with both screenshots readable, an error of one judge service zeroes
\* that judgment only and leaves a rationale; the other judgment is made and
\* its score kept, and the final score is the weighted sum of the two.
C17_JudgeErrorIsolated ==
    ( /\ Evaluated /\ eout.path = "parallel"
      /\ ein.shot = "file" /\ ein.gt = "ok"
      /\ "error" \in {ein.visual, ein.html} ) =>
        /\ eout.judged = {"visual", "html"}
        /\ eout.visual_score = Score(ein.visual = "pass")
        /\ eout.html_score = Score(ein.html = "pass")
        /\ eout.final_score = FinalScoreP(eout.visual_score, eout.html_score)
        /\ ein.visual = "error" => eout.visual_reasoning # Null
        /\ ein.html = "error" => eout.html_reasoning # Null

\* C18: a Task Result whose after-screenshot is absent, null or not on disk
\* is judged a visual fail with a rationale; the structural judgment is
\* still made and the record carries no error.
C18_MissingScreenshotFails ==
    ( /\ Evaluated /\ eout.path = "parallel"
      /\ ein.shot \in {"absent", "null", "nofile"} ) =>
        /\ eout.error = Null
        /\ eout.visual_score = 0 /\ eout.visual_reasoning # Null
        /\ "html" \in eout.judged
        /\ eout.html_score = Score(ein.html = "pass")

\* The raw fields of a result record.
Raw(r) ==
    [task_id |-> r.task_id, success |-> r.success, error |-> r.error,
     after_screenshot |-> r.after_screenshot, html_element |-> r.html_element]

C20_RateLimited ==
    mode = "pool" =>
        /\ \A i \in 1 .. (Len(admits) - 1) : admits[i + 1] - admits[i] >= MinWait
        /\ \A i \in 1 .. Len(admits) :
              Cardinality({j \in 1 .. Len(admits) :
                              admits[i] <= admits[j] /\ admits[j] - admits[i] < Window})
                  <= MaxRequests
        /\ Cardinality({w \in Threads : tpc[w] = "add"}) <= 1

\* C21: run_task makes a bounded number of attempts and ends with one Task
\* Result for its task, also when every attempt fails and handle_error
\* answers each failure with a new interaction.
C21_RetryBounded ==
    (mode = "retry" /\ rpc = "done" /\ rret.error # HandlerError)
        => (rret.kind = "result" /\ rret.task_id = rtask)

\* The browser sessions webdriver.Chrome() has created so far.
Acquired == {s \in Sessions : sess[s].state # "free"}

\* C22: a serial run acquires one browser session for the whole run and
\* every task of the run uses that session.
C22_OneSerialSession ==
    mode \in {"serial", "main"} =>
        /\ Cardinality(Acquired) <= 1
        /\ \A t \in Tasks : SessionOf(t) \in {0, runDriver}

\* C23: every suspension point is bounded by a timeout, so every task of a
\* finite list reaches a final state and run_tasks returns.
C23_RunReturns ==
    <>(run = "returned" /\ \A t \in 1 .. ntasks : pc[t] = "collected")

\* The items of batches before the current one, and those at work now.
Earlier == {k \in Items : k <= bi}
AtWork == {k \in Items : bpc[k] \in {"queued", "running", "finished"}}

\* C24: no item of a batch starts before every item of the batches before
\* it is finished and collected, and one cooldown has elapsed between every
\* two consecutive batches, none after the last.
C24_BarrierAndCooldown ==
    mode = "batch" =>
        /\ AtWork # {} => \A k \in Earlier : bpc[k] = "collected"
        /\ bsizes # <<>> => bslept \in {Len(bsizes) - 1, Len(bsizes)}
        /\ brun = "collect" => bslept = Len(bsizes) - 1
        /\ brun = "returned" /\ bsizes # <<>> => bslept = Len(bsizes) - 1

\* C25: no batch holds more than the fixed cap of items however large
\* max_workers is, and every batch but the last holds
\* min(max_workers, cap) items.
C25_BatchSizeCapped ==
    mode = "batch" =>
        \A b \in 1 .. Len(bsizes) :
            /\ bsizes[b] <= Min(bworkers, WorkerCap)
            /\ b < Len(bsizes) => bsizes[b] = Min(bworkers, WorkerCap)

\* C26: when the interaction found the target element and the action then
\* failed, the Task Result of the task records the captured html_element,
\* with success false and the error.
C26_HtmlRecordedOnFailure ==
    mode \in {"parallel", "serial"} =>
        \A k \in 1 .. Len(results) :
            LET a == answer[TaskOf(k)]
            IN  (a.called /\ ~a.success /\ a.html_element # Null) =>
                    /\ results[k].html_element = a.html_element
                    /\ results[k].success = FALSE
                    /\ results[k].error # Null

\* C27: a click whose native click is intercepted falls back to a script
\* click and succeeds when the script click does; a click-intercepted error
\* is reported only when the fallback failed as well.
C27_ClickFallsBack ==
    (/\ mode = "exec" /\ xout.impl # "none"
     /\ xin.action = "click" /\ xin.stype \in Supported
     /\ xin.present /\ xin.ready = "ok") =>
        /\ xin.act = "ok" => xout.ret.success
        /\ (xin.act = "intercepted" /\ xin.js = "ok") => xout.ret.success
        /\ xout.ret.error = ErrorOf("intercepted") =>
               (xin.act = "intercepted" /\ xin.js # "ok")

\* C28: a judge call that fails and would succeed when repeated is repeated:
\* with both screenshots readable, a judgment whose first call raises and
\* whose second call answers gets the score of the second answer.
C28_JudgeRetried ==
    ( /\ Evaluated /\ eout.path = "parallel"
      /\ ein.shot = "file" /\ ein.gt = "ok" ) =>
        /\ (ein.visual = "error" /\ jnext.visual # "error") =>
               eout.visual_score = Score(jnext.visual = "pass")
        /\ (/\ ein.visual # "error"
            /\ ein.html = "error" /\ jnext.html # "error") =>
               eout.html_score = Score(jnext.html = "pass")

\* C29: in the request sent to the structural judge the actual and the
\* expected HTML are each at most 2000 characters plus the ellipsis and the
\* task description at most 500 characters plus the ellipsis, whatever the
\* lengths of the inputs.
C29_RequestTruncated ==
    (mode = "trunc" /\ fout.sent) =>
        /\ fout.request.actual_html <= MaxHtmlLength + EllipsisLen
        /\ fout.request.expected_html <= MaxHtmlLength + EllipsisLen
        /\ fout.request.task_description <= MaxTaskLength + EllipsisLen

\* C30: the Evaluation Record does not depend on the order of the two
\* judgments: the record evaluate_task returns has the scores, the final
\* score and the success flag of the evaluation that asks the structural
\* judge first and the visual judge second.
C30_OrderInsensitive ==
    Evaluated =>
        LET coded == EvaluateInOrder(eout.path, ein, <<"visual", "html">>)
            swapped == EvaluateInOrder(eout.path, ein, <<"html", "visual">>)
        IN  /\ eout = coded
            /\ \A f \in {"success", "visual_score", "html_score", "final_score",
                          "visual_evaluation", "html_evaluation"} :
                   eout[f] = swapped[f]

\* The visual judge raises and the structural judge passes: the two orders
\* do not make the same calls.
C30_Witness ==
    /\ Evaluated /\ eout.path = "parallel"
    /\ ein.shot = "file" /\ ein.gt = "ok"
    /\ ein.visual = "error" /\ ein.html = "pass"
    /\ eout.judged = {"visual"}
    /\ EvaluateInOrder("parallel", ein, <<"html", "visual">>).judged
           = {"visual", "html"}

C32_CallApiBounded ==
    /\ [](mode = "api" =>
            /\ Len(alog) <= MaxRetries + 1
            /\ \A i \in 1 .. Len(alog) - 1 : alog[i] # "ok"
            /\ aret.returned =>
                 /\ ~aret.error <=> alog[Len(alog)] = "ok"
                 /\ ~aret.error <=> aret.response # Null
                 /\ aret.error <=> (/\ Len(alog) = MaxRetries + 1
                                     /\ \A i \in 1 .. Len(alog) : alog[i] # "ok")
            /\ (apc = "done" /\ aret.error) => aparsed = "none")
    /\ <>(mode = "api" /\ apc = "done")

C32_Witness ==
    /\ mode = "api" /\ apc = "done" /\ aimpl = "gemini"
    /\ aret.returned /\ ~aret.error
    /\ Len(alog) = MaxRetries + 1
    /\ aslept > 0

C32_WitnessExhausted ==
    /\ mode = "api" /\ apc = "done" /\ aret.error /\ aparsed = "none"
    /\ Len(alog) = MaxRetries + 1

\* C33: an attempt that follows a failed one executes the interaction
\* handle_error returned for that failure, and when handle_error returns None
\* run_task returns a failed TaskResult carrying the error of the attempt.
C33_RetryExecutesRegenerated ==
    mode = "retry" =>
        /\ \A i \in 1 .. Len(rran) :
              rran[i].attempt > 1 =>
                 rran[i].interaction =
                    [by |-> "handle_error", attempt |-> rran[i].attempt - 1]
        /\ (rpc = "done" /\ rtry = NoInteraction /\ rret.kind = "result"
              /\ Len(rlog) = depth) =>
                 (rret.success = FALSE /\ rret.error = rerr /\ rerr # Null)

\* C34: a task for which parse_task returned None is skipped: execute_task
\* performs no interaction for it and asks the executor nothing, its record
\* has success = False and no element, its session is quit when execute_task
\* has ended, and the returned list holds exactly one record for it.
C34_NullInteractionSkips ==
    mode \in {"parallel", "serial"} =>
        \A t \in Tasks :
            fault[t] = "no_interaction" =>
                /\ \A i \in 1 .. Len(phases[t]) : phases[t][i] # "interact"
                /\ ~answer[t].called
                /\ result[t].success = FALSE
                /\ result[t].html_element = Null
                /\ result[t].after_screenshot = Null
                /\ pc[t] \in {"done", "collected"} =>
                      /\ driver[t] # 0
                      /\ sess[driver[t]] = [state |-> "quit", quits |-> 1]
                /\ run = "returned" =>
                      /\ Cardinality(Records(t)) = 1
                      /\ \A k \in Records(t) :
                            /\ results[k].success = FALSE
                            /\ results[k].html_element = Null

\* A parallel run has returned in which the adapter skipped one task and
\* another task was executed with success.
C34_Witness ==
    /\ mode = "parallel" /\ run = "returned"
    /\ \E t \in Tasks : fault[t] = "no_interaction" /\ Cardinality(Records(t)) = 1
    /\ \E t \in Tasks : answer[t].called /\ result[t].success = TRUE

\* The same in a serial run.
C34_WitnessSerial ==
    /\ mode = "serial" /\ run = "returned"
    /\ \E t \in Tasks : fault[t] = "no_interaction" /\ Cardinality(Records(t)) = 1

\* C35: in run_parallel_evaluation an evaluation that ran for more than 60
\* seconds is recorded as an error record for its task.
C35_EvaluationTimeout ==
    (mode = "batch" /\ bimpl = "eval") =>
        \A k \in Items :
            (k \in blate /\ bpc[k] = "collected") => Appended(k) = "error"

\* C36: every Evaluation Record carries the id of a task of the corpus that
\* has a result record, no two records carry the same id, and in the output
\* written successful_tasks <= len(evaluations) <= total_tasks = len(tasks).
C36_RecordsMatchResults ==
    mode = "pair" =>
        /\ \A i \in 1 .. Len(qevals) :
              /\ qevals[i].task_id \in 1 .. qn
              /\ \E j \in 1 .. Len(qres) : qres[j] = qevals[i].task_id
        /\ \A i, j \in 1 .. Len(qevals) :
              qevals[i].task_id = qevals[j].task_id => i = j
        /\ qout.written =>
              /\ qout.evaluations = qevals
              /\ qout.total_tasks = qn
              /\ qout.successful_tasks <= Len(qout.evaluations)
              /\ Len(qout.evaluations) <= qout.total_tasks

\* An output has been written for a corpus of three tasks, one of them without
\* a result, and a results file with a second record for one task; one
\* evaluation succeeded, one did not.
C36_Witness ==
    /\ mode = "pair" /\ qout.written /\ qn = MaxCorpus
    /\ \E t \in 1 .. qn : ~HasResult(qres, t)
    /\ \E i, j \in 1 .. Len(qres) : i # j /\ qres[i] = qres[j]
    /\ Len(qout.evaluations) = 2
    /\ qout.successful_tasks = 1

\* C37: in every record the parallel and the serial runner return, success
\* = True implies that error is None and that after_screenshot is set.
C37_SuccessExcludesError ==
    mode \in {"parallel", "serial"} =>
        \A k \in 1 .. Len(results) :
            results[k].success = TRUE =>
                /\ results[k].error = Null
                /\ results[k].after_screenshot # Null

\* bool(r['success']) of record k.  In run.py success is the initial False
\* until the pair execute_interaction returned is assigned, a non-empty tuple;
\* the model assigns it in the step that sets after_screenshot.
Truthy(k) ==
    IF mode = "main" THEN results[k].after_screenshot # Null
    ELSE results[k].success = TRUE

\* successful = sum(1 for r in results if r['success'])
SummarySuccessful == Cardinality({k \in 1 .. Len(results) : Truthy(k)})

\* errors = sum(1 for r in results if r.get('error'))
SummaryFailed ==
    Cardinality({k \in 1 .. Len(results) : results[k].error \notin {Null, ""}})

\* C38: in the summary the serial runner and run.py print, the successful
\* count plus the failed count is the number of tasks.
C38_SummaryPartitions ==
    (mode \in {"serial", "main"} /\ run = "returned") =>
        SummarySuccessful + SummaryFailed = ntasks

\* C39: a run over an empty task list, its browser session set up and quit
\* without failure, ends by returning, in each of the runners, with an empty
\* result list and without an exception.
C39_EmptyRunCompletes ==
    (ntasks = 0 /\ runError \notin {SessionError, "quit failed"}) =>
        /\ run # "raised"
        /\ runError = Null
        /\ results = <<>>

\* C40: a thread that waits in the loop on can_make_request is eventually
\* admitted and makes its request, whatever the other threads of the pool do.
C40_WaiterAdmitted ==
    \A w \in Threads :
        (mode = "pool" /\ tpc[w] \in {"check", "sleep"}) ~> (tpc[w] = "add")

\* Thread 1 is admitted to its first request after the other thread has made
\* all of its own, the last of them at least min_wait seconds ago.
C40_Witness ==
    /\ mode = "pool" /\ tpc[1] = "add" /\ sent[1] = 0 /\ sent[2] = MaxCalls
    /\ requests # <<>> /\ clock - requests[Len(requests)] >= MinWait
====
